---- MODULE Spec2Model ----
(***************************************************************************)
(* A model of paperscraper's scrape orchestrator                           *)
(* (src/paperscraper/scraper.py, class Scraper): the strategy registry     *)
(* (register_scraper, deregister_scraper, _build_sorted_scrapers) and one  *)
(* scrape() call at a time, stepped at its suspension points.              *)
(*                                                                         *)
(* The environment is nondeterministic: a strategy invocation returns      *)
(* true or false, raises, or is cut off by the timeout; it may write the   *)
(* destination file; the observer callback returns or raises; the paper    *)
(* record may lack "title" or "paperId".                                   *)
(*                                                                         *)
(* Beside it, the sessions the registry attaches to its strategies         *)
(* (src/paperscraper/utils.py, class ThrottledClientSession) and           *)
(* Scraper.close(), stepped at the event loop's turns; one session alone:  *)
(* the retry loop of _request, and the token bucket under a clock.         *)
(***************************************************************************)
EXTENDS Integers, Sequences, FiniteSets, TLC

\* ------------------------------------------------------------- bounds
\* Registrations made over the life of one Scraper object.
MaxRegs == 3
\* Largest start offset i passed to scrape().
MaxOffset == 2
\* Calls of Scraper.close() made on one Scraper object.
MaxCloses == 2
\* Largest retry_count a session is built with.
MaxRetryCount == 5
\* Ticks of the clock a session is followed for.
MaxTime == 22
\* Ticks by which the filler may wake later than it asked to.
MaxJitter == 1
\* Calls of _request made on one session.
MaxRequests == 6
MaxBackoffs == 1
\* The most scrape() calls of one chunk, and the strategies each goes through.
MaxFlights == 2
MaxStrategies == 3
\* The greatest limit, page size and total of results of a search.
MaxSearchLimit == 6
MaxPageSize == 3
MaxTotal == 8

Names == {"A", "B"}
Priorities == {1, 5, 10}
Offsets == 0..MaxOffset

\* Arguments of register_scraper: strategy "A" is registered with the default
\* check=True, strategy "B" with check=False, either at any priority and any
\* number of times.
CheckOf(name) == name = "A"

\* What one strategy invocation under wait_for can do (scraper.py:100-103):
\* return a truthy or falsy value, raise an Exception, or run into the timeout
\* (SCRAPE_FUNCTION_TIMEOUT, 60 s unless the environment says otherwise), upon
\* which wait_for cancels it and raises TimeoutError.
Outcomes == {"true", "false", "raise", "timeout"}
\* State of the file at the destination path, as check_pdf sees it.
FileStates == {"missing", "corrupt", "valid"}
\* What the observer callback can do when awaited.
CallbackOutcomes == {"ok", "raise"}

VARIABLES
  scrapers,         \* self.scrapers: list of ScraperFunction
  sorted_scrapers,  \* self.sorted_scrapers: list of lists, ascending priority
  callback,         \* self.callback is not None
  nextId,           \* registrations so far: the identity of the next ScraperFunction
  pc,               \* position of the scrape() call
  i,                \* scrape()'s argument i (start offset)
  paper,            \* which keys the paper record holds
  logger,           \* logger is not None
  file,             \* state of the file at path
  t,                \* index of the current bucket in sorted_scrapers[::-1] (1-based)
  j,                \* loop variable j of the inner loop
  result,           \* scrape_result: name -> "none" | "success" | "failed"
  ret,              \* value scrape() returned: "none" | "true" | "false"
  invoked,          \* history: ids of the strategies awaited by this call, in order
  lastOutcome,      \* history: outcome of the last strategy invocation
  winAt,            \* history: position in invoked of the first validated true, or 0
  cbCount,          \* history: times the callback was awaited by this call
  sessions,         \* id of a ScraperFunction -> the session in its kwargs
  cpc,              \* position of the Scraper.close() call
  ck,               \* index in self.scrapers of the scraper close() is at
  closeCalls,       \* calls of Scraper.close() so far
  rate_limit,       \* self._rate_limit of the one session looked at alone
  retry_count,      \* self._retry_count
  qsize,            \* self._queue.qsize()
  rpc,              \* position of the _request call
  retry_num,        \* loop variable retry_num
  responses,        \* history: statuses of the responses of this call, in order
  sent,             \* history: requests this call sent to the underlying client
  acquired,         \* history: tokens this call took from the queue
  slept,            \* history: backoff sleeps of this call
  err,              \* exception _request raised: "none" or its class
  now,              \* the clock, in ticks since the session was created
  session,          \* the one session: filler task and connector
  ts_before_sleep,  \* the filler's local ts_before_sleep
  wake,             \* when the filler's sleep is due to end
  waiting,          \* calls suspended in queue.get()
  issued,           \* history: calls of _request so far
  burst,            \* history: calls of _request made at time 0
  dispatched,       \* history: requests passed to the underlying client
  lastDispatch,     \* history: time of the last of them
  recent,           \* history: times of those less than a second old
  produced,         \* history: tokens the filler has put into the queue
  clamped,          \* history: the filler found less space than tokens to add
  late,             \* history: the filler woke later than it asked to
  spc,              \* position of the session's close() call
  backoff,          \* calls asleep in the backoff of _request
  retried,          \* history: backoff sleeps that have ended
  papers,           \* batch_scrape's papers: the paperId of each, in order
  batch_size,       \* batch_scrape's batch_size
  limit,            \* batch_scrape's limit, NoLimit for None
  bpc,              \* position of the batch_scrape call
  chunk,            \* the loop variable i of batch_scrape: the chunk's start
  jobs,             \* the scrape_parse coroutine of each paper
  aggregated,       \* batch_scrape's aggregated: path -> paper parsed
  files,            \* the paths a successful scrape() has written
  startedWith,      \* history: len(aggregated) when each chunk started
  registries,       \* the scrapers list of each Scraper default_scraper made
  strategy,         \* the source strategy being called, "none" if none is
  record,           \* the paper record it was called with
  stage,            \* the download helper whose request is in flight
  requests,         \* history: requests the strategy call has sent
  written,          \* the strategy call has written the file at path
  outcome,          \* what the strategy call returned, or "raised"
  fetched,          \* history: the responses the strategy call got
  flights,          \* the strategy invocations of each scrape() call of a chunk
  search_limit,     \* a_gsearch_papers' limit
  page_size,        \* a_gsearch_papers' _limit, the "num" of a page request
  offset,           \* a_gsearch_papers' _offset, the "start" of a page request
  total_papers,     \* total_results as the search reports it
  paths,            \* len(paths): the papers scraped so far
  starts,           \* history: the start of each page request made
  gpc               \* position of the a_gsearch_papers call

vars == <<scrapers, sorted_scrapers, callback, nextId, pc, i, paper,
          logger, file, t, j, result, ret, invoked, lastOutcome, winAt, cbCount,
          sessions, cpc, ck, closeCalls,
          rate_limit, retry_count, qsize,
          rpc, retry_num, responses, sent, acquired, slept, err,
          now, session, ts_before_sleep, wake, waiting, issued, burst,
          dispatched, lastDispatch, recent, produced, clamped, late, spc,
          backoff, retried,
          papers, batch_size, limit, bpc, chunk, jobs, aggregated, files,
          startedWith,
          registries, strategy, record, stage, requests, written, outcome,
          fetched,
          flights, search_limit, page_size, offset, total_papers, paths, starts,
          gpc>>

registry == <<scrapers, sorted_scrapers, callback, nextId>>
call     == <<pc, i, paper, logger, file, t, j, result, ret, invoked,
              lastOutcome, winAt, cbCount>>
\* The sessions and the close() call.
lifecycle == <<sessions, cpc, ck, closeCalls>>
\* What register_scraper(attach_session=False), deregister_scraper and
\* scrape() never touch.
\* The _request call.
attempt == <<rpc, retry_num, responses, sent, acquired, slept, err>>
\* The clock, the filler and the requests of the timed session.
timed == <<now, session, ts_before_sleep, wake, waiting, issued, burst,
           dispatched, lastDispatch, recent, produced, clamped, late, spc,
           backoff, retried>>
\* The batch_scrape call.
batch == <<papers, batch_size, limit, bpc, chunk, jobs, aggregated, files,
           startedWith>>
\* default_scraper and the call of a source strategy.
source == <<registries, strategy, record, stage, requests, written, outcome,
            fetched>>
\* The scrape() calls of a chunk, seen as strategy invocations.
flight == <<flights>>
\* The a_gsearch_papers call.
search == <<search_limit, page_size, offset, total_papers, paths, starts, gpc>>
apart == <<lifecycle, rate_limit, retry_count, qsize, attempt, timed, batch,
           source, flight, search>>

\* None, as the limit of batch_scrape.
NoLimit == -1

\* No batch_scrape call has been made.
NoBatch ==
  /\ papers = <<>> /\ batch_size = 1 /\ limit = NoLimit /\ bpc = "idle"
  /\ chunk = 0 /\ jobs = <<>> /\ aggregated = <<>> /\ files = {}
  /\ startedWith = <<>>

\* A paper record as the strategies read it (lib.py:219-290): the kind of
\* its externalIds["DOI"], the other keys of externalIds, and openAccessPdf.
NoPaper == [doi |-> "none", ids |-> {}, openAccessPdf |-> "absent"]

\* default_scraper has not been called and no strategy is being called.
NoSource ==
  /\ registries = <<>> /\ strategy = "none" /\ record = NoPaper
  /\ stage = "idle" /\ requests = 0 /\ written = FALSE /\ outcome = "none"
  /\ fetched = <<>>

\* No scrape() call of a chunk is looked at.
NoFlight == flights = <<>>

\* a_gsearch_papers has not been called.
NoSearch ==
  /\ search_limit = 0 /\ page_size = 1 /\ offset = 0 /\ total_papers = 0
  /\ paths = 0 /\ starts = <<>> /\ gpc = "idle"

\* ------------------------------------------------------------ helpers
\* A ScraperFunction (scraper.py:14-20); id stands for the object's identity.
ScraperFunction(id, name, priority, check) ==
  [id |-> id, name |-> name, priority |-> priority, check_pdf |-> check]

\* list.sort(key=priority, reverse=True) is stable: an element goes after
\* every element already placed whose priority is >= its own.
InsertDesc(s, x) ==
  LET k == Cardinality({n \in 1..Len(s) : s[n].priority >= x.priority})
  IN  SubSeq(s, 1, k) \o <<x>> \o SubSeq(s, k + 1, Len(s))

RECURSIVE SortDesc(_)
SortDesc(s) ==
  IF Len(s) = 0 THEN <<>>
  ELSE InsertDesc(SortDesc(SubSeq(s, 1, Len(s) - 1)), s[Len(s)])

\* sorted(set_of_ints): ascending.
RECURSIVE SortedAsc(_)
SortedAsc(S) ==
  IF S = {} THEN <<>>
  ELSE LET m == CHOOSE x \in S : \A y \in S : x <= y
       IN  <<m>> \o SortedAsc(S \ {m})

WithPriority(scr, p) == SelectSeq(scr, LAMBDA s : s.priority = p)

\* A faulty _build_sorted_scrapers: one bucket per scraper instead of one per
\* distinct priority (a list where the code builds a set).
BuildSortedScrapers_PerScraper(scr) ==
  [b \in 1..Len(scr) |-> WithPriority(scr, scr[b].priority)]

\* Scraper._build_sorted_scrapers (scraper.py:63-67).
BuildSortedScrapers(scr) ==
  LET ps == SortedAsc({scr[n].priority : n \in 1..Len(scr)})
  IN  [b \in 1..Len(ps) |-> WithPriority(scr, ps[b])]

Reverse(s) == [n \in 1..Len(s) |-> s[Len(s) + 1 - n]]

\* A faulty iteration order: the buckets as stored, lowest priority first.
Tiers_NotReversed == sorted_scrapers

\* self.sorted_scrapers[::-1] (scraper.py:96).
Tiers == Reverse(sorted_scrapers)

\* A faulty pick that ignores the start offset.
ScraperAt_NoOffset(bucket, off, k) == bucket[k + 1]

\* scrapers[(i + j) % len(scrapers)] (scraper.py:98); sequences are 1-based.
ScraperAt(bucket, off, k) == bucket[((off + k) % Len(bucket)) + 1]

\* check_pdf (utils.py:136-153): False when the file is missing or does not
\* open as a PDF.
CheckPdf(f) == f = "valid"

\* {s.name: "none" for s in self.scrapers} (scraper.py:95).
InitialResult(scr) == [n \in {scr[k].name : k \in 1..Len(scr)} |-> "none"]

RemoveAt(s, k) == SubSeq(s, 1, k - 1) \o SubSeq(s, k + 1, Len(s))

\* Paper records and loggers given to scrape(): a record with every key the
\* code reads (with and without a logger), one without "title", and one
\* without "paperId", which only the debug log of a logger reads.
FullPaper == [hasTitle |-> TRUE, hasPaperId |-> TRUE]
NoTitle   == [hasTitle |-> FALSE, hasPaperId |-> TRUE]
NoPaperId == [hasTitle |-> TRUE, hasPaperId |-> FALSE]
ScrapeArgs == {<<FullPaper, FALSE>>, <<FullPaper, TRUE>>,
               <<NoTitle, FALSE>>, <<NoPaperId, TRUE>>}

\* ---------------------------------------------------------------- Init
\* Scraper.__init__ (scraper.py:27-32); no scrape() call has been made.
Init ==
  /\ scrapers = <<>>
  /\ sorted_scrapers = <<>>
  /\ callback \in BOOLEAN
  /\ nextId = 0
  /\ pc = "idle"
  /\ i = 0
  /\ paper = FullPaper
  /\ logger = FALSE
  /\ file = "missing"
  /\ t = 0
  /\ j = 0
  /\ result = <<>>
  /\ ret = "none"
  /\ invoked = <<>>
  /\ lastOutcome = "none"
  /\ winAt = 0
  /\ cbCount = 0
  /\ sessions = <<>>
  /\ cpc = "idle"
  /\ ck = 0
  /\ closeCalls = 0
  /\ rate_limit = 0 /\ retry_count = 0 /\ qsize = 0
  /\ rpc = "idle" /\ retry_num = 0 /\ responses = <<>>
  /\ sent = 0 /\ acquired = 0 /\ slept = 0 /\ err = "none"
  /\ now = 0 /\ session = [filler |-> "none", closed |-> FALSE, released |-> 0]
  /\ ts_before_sleep = 0 /\ wake = 0
  /\ waiting = 0 /\ issued = 0 /\ burst = 0 /\ dispatched = 0
  /\ lastDispatch = 0 /\ recent = <<>> /\ produced = 0
  /\ clamped = FALSE /\ late = FALSE /\ spc = "open"
  /\ backoff = 0 /\ retried = 0
  /\ NoBatch
  /\ NoSource
  /\ NoFlight
  /\ NoSearch

\* A program without a Scraper: no strategy, no callback, no call.
NoScraper ==
  /\ scrapers = <<>> /\ sorted_scrapers = <<>> /\ callback = FALSE /\ nextId = 0
  /\ pc = "idle" /\ i = 0 /\ paper = FullPaper /\ logger = FALSE
  /\ file = "missing" /\ t = 0 /\ j = 0 /\ result = <<>> /\ ret = "none"
  /\ invoked = <<>> /\ lastOutcome = "none" /\ winAt = 0 /\ cbCount = 0
  /\ sessions = <<>> /\ cpc = "idle" /\ ck = 0 /\ closeCalls = 0

\* No scrape() call is in flight. The registry is single-writer: register and
\* deregister are not interleaved with a running scrape().
NoCall == pc = "idle"

\* scrape() has returned or raised.
Finished == pc \in {"returned", "raised"}

\* The locals and the history of a scrape() call that is over are dropped.
ForgetCall ==
  /\ pc' = "idle" /\ i' = 0 /\ paper' = FullPaper /\ logger' = FALSE
  /\ file' = "missing" /\ t' = 0 /\ j' = 0 /\ result' = <<>> /\ ret' = "none"
  /\ invoked' = <<>> /\ lastOutcome' = "none" /\ winAt' = 0 /\ cbCount' = 0

\* ------------------------------------------------------------ registry
\* Scraper.register_scraper (scraper.py:34-54): append, sort, rebuild.
RegisterScraper(name, priority, check) ==
  /\ NoCall
  /\ nextId < MaxRegs
  /\ LET s == ScraperFunction(nextId + 1, name, priority, check)
         scr == SortDesc(Append(scrapers, s))
     IN  /\ scrapers' = scr
         /\ sorted_scrapers' = BuildSortedScrapers(scr)
  /\ nextId' = nextId + 1
  /\ UNCHANGED callback
  /\ UNCHANGED call
  /\ UNCHANGED apart

\* Scraper.deregister_scraper (scraper.py:69-75): pop the first scraper of
\* that name, if any, then rebuild.
DeregisterScraper(name) ==
  /\ NoCall
  /\ LET hits == {k \in 1..Len(scrapers) : scrapers[k].name = name}
         scr == IF hits = {} THEN scrapers
                ELSE RemoveAt(scrapers, CHOOSE k \in hits : \A m \in hits : k <= m)
     IN  /\ scrapers' = scr
         /\ sorted_scrapers' = BuildSortedScrapers(scr)
  /\ UNCHANGED <<callback, nextId>>
  /\ UNCHANGED call
  /\ UNCHANGED apart

\* -------------------------------------------------------------- scrape
\* Entering bucket k of sorted_scrapers[::-1], or leaving the outer loop and
\* returning False (scraper.py:96, 125).
EnterTier(k) ==
  IF k > Len(Tiers)
  THEN pc' = "returned" /\ ret' = "false" /\ UNCHANGED <<t, j>>
  ELSE pc' = "invoke" /\ t' = k /\ j' = 0 /\ ret' = ret

\* The next iteration of the inner loop, or its end (scraper.py:97, 123).
NextInTier ==
  IF j + 1 < Len(Tiers[t])
  THEN pc' = "invoke" /\ j' = j + 1 /\ UNCHANGED <<t, ret>>
  ELSE pc' = "tierEnd" /\ UNCHANGED <<t, j, ret>>

\* scrape_result[scraper.name] = "failed" (scraper.py:122), then loop on.
MarkFailed(name) ==
  /\ result' = [result EXCEPT ![name] = "failed"]
  /\ NextInTier

\* A call of scrape(paper, path, i, logger) up to its first await
\* (scraper.py:95-98), with nothing yet at path. With no bucket the loop body
\* never runs.
StartScrape(off, p, lg) ==
  /\ NoCall
  /\ i' = off /\ paper' = p /\ logger' = lg /\ file' = "missing"
  /\ result' = InitialResult(scrapers)
  /\ invoked' = <<>> /\ lastOutcome' = "none" /\ winAt' = 0 /\ cbCount' = 0
  /\ IF Len(Tiers) = 0
     THEN pc' = "returned" /\ ret' = "false" /\ t' = 0 /\ j' = 0
     ELSE pc' = "invoke" /\ ret' = "none" /\ t' = 1 /\ j' = 0
  /\ UNCHANGED registry
  /\ UNCHANGED apart

\* One strategy invocation under wait_for and the test of its result
\* (scraper.py:98-107, 116-122). A strategy writes to path only on the way to
\* returning true (lib.py:95-290); it may also return true without writing.
Invoke(out, f) ==
  /\ pc = "invoke"
  /\ IF out = "true" THEN f \in {file, "corrupt", "valid"} ELSE f = file
  /\ LET scraper == ScraperAt(Tiers[t], i, j)
     IN  /\ invoked' = Append(invoked, scraper.id)
         /\ lastOutcome' = out
         /\ file' = f
         /\ CASE out \in {"raise", "timeout"} ->
                   \* caught by except Exception (TimeoutError is one)
                   MarkFailed(scraper.name) /\ UNCHANGED winAt
              [] out = "false" ->
                   MarkFailed(scraper.name) /\ UNCHANGED winAt
              [] out = "true" ->
                   IF ~scraper.check_pdf \/ CheckPdf(f)
                   THEN /\ result' = [result EXCEPT ![scraper.name] = "success"]
                        /\ winAt' = IF winAt = 0 THEN Len(invoked) + 1 ELSE winAt
                        /\ pc' = "succeeded"
                        /\ UNCHANGED <<t, j, ret>>
                   ELSE MarkFailed(scraper.name) /\ UNCHANGED winAt
  /\ UNCHANGED <<i, paper, logger, cbCount>>
  /\ UNCHANGED registry
  /\ UNCHANGED apart

\* The success path after the entry was set to "success" (scraper.py:108-115),
\* all of it inside the try: the debug log reads paper['paperId'], the
\* callback's argument reads paper["title"], the callback is awaited. An
\* exception of any of them is caught at line 116 and line 122 runs.
Succeeded(cb) ==
  /\ pc = "succeeded"
  /\ LET name == ScraperAt(Tiers[t], i, j).name
     IN  IF logger /\ ~paper.hasPaperId
         THEN MarkFailed(name) /\ UNCHANGED cbCount
         ELSE IF ~callback
         THEN /\ pc' = "returned" /\ ret' = "true"
              /\ UNCHANGED <<t, j, result, cbCount>>
         ELSE IF ~paper.hasTitle
         THEN MarkFailed(name) /\ UNCHANGED cbCount
         ELSE /\ cbCount' = cbCount + 1
              /\ IF cb = "ok"
                 THEN pc' = "returned" /\ ret' = "true" /\ UNCHANGED <<t, j, result>>
                 ELSE MarkFailed(name)
  /\ UNCHANGED <<i, paper, logger, file, invoked, lastOutcome, winAt>>
  /\ UNCHANGED registry
  /\ UNCHANGED apart

\* The end of a bucket (scraper.py:123-124), outside the try: an exception
\* here leaves scrape().
TierEnd(cb) ==
  /\ pc = "tierEnd"
  /\ IF ~callback
     THEN EnterTier(t + 1) /\ UNCHANGED cbCount
     ELSE IF ~paper.hasTitle
     THEN pc' = "raised" /\ UNCHANGED <<t, j, ret, cbCount>>
     ELSE /\ cbCount' = cbCount + 1
          /\ IF cb = "ok"
             THEN EnterTier(t + 1)
             ELSE pc' = "raised" /\ UNCHANGED <<t, j, ret>>
  /\ UNCHANGED <<i, paper, logger, file, result, invoked, lastOutcome, winAt>>
  /\ UNCHANGED registry
  /\ UNCHANGED apart

\* The caller takes the result (or the exception) of scrape(): the call is
\* over and its locals are gone.
EndScrape ==
  /\ Finished
  /\ ForgetCall
  /\ UNCHANGED registry
  /\ UNCHANGED apart

Next ==
  \/ \E n \in Names, p \in Priorities : RegisterScraper(n, p, CheckOf(n))
  \/ \E n \in Names : DeregisterScraper(n)
  \/ \E off \in Offsets, a \in ScrapeArgs : StartScrape(off, a[1], a[2])
  \/ \E out \in Outcomes, f \in FileStates : Invoke(out, f)
  \/ \E cb \in CallbackOutcomes : Succeeded(cb)
  \/ \E cb \in CallbackOutcomes : TierEnd(cb)
  \/ EndScrape

Spec == Init /\ [][Next]_vars

\* ------------------------------------------ sessions and Scraper.close
\* Whether register_scraper(attach_session=True) passes a rate_limit.
RateLimited == BOOLEAN

\* ThrottledClientSession.__init__ (utils.py:46-61): with a rate_limit the
\* filler task is created (create_task does not run it); without, there is
\* none. The connector of the aiohttp session is open.
NewSession(limited) ==
  [filler |-> IF limited THEN "pending" ELSE "none",
   closed |-> FALSE, released |-> 0]

\* One turn of the event loop on a filler task that was not asked to stop
\* (utils.py:70-97): a task that has not run yet runs up to its first sleep.
FillerTurn(f) == IF f = "pending" THEN "sleeping" ELSE f

\* One turn of the event loop on a filler task after cancel() (utils.py:66):
\* a task that never ran ends cancelled, its coroutine body never entered; a
\* task asleep at line 97 gets CancelledError there, catches it (line 98) and
\* ends normally.
FillerCancelled(f) ==
  CASE f = "pending" -> "cancelled"
    [] f = "sleeping" -> "done"
    [] OTHER -> f

\* The filler task is not over.
FillerRunning(f) == f \in {"pending", "sleeping"}

\* super().close() (utils.py:68): aiohttp releases the connector unless the
\* session is closed already.
SuperClose(s) ==
  [s EXCEPT !.closed = TRUE,
            !.released = IF s.closed THEN @ ELSE @ + 1]

\* Scraper.close() from scraper k on, up to its next suspension
\* (scraper.py:196-198, utils.py:65-68). wait_for on a task that is over
\* returns or raises at once; on a task that is not, it suspends.
RECURSIVE CloseFrom(_, _)
CloseFrom(k, ss) ==
  IF k > Len(scrapers)
  THEN [cpc |-> "returned", ck |-> 0, sessions |-> ss]
  ELSE LET id == scrapers[k].id
       IN  IF id \notin DOMAIN ss
           THEN CloseFrom(k + 1, ss)
           ELSE IF FillerRunning(ss[id].filler)
           THEN [cpc |-> "waitFiller", ck |-> k, sessions |-> ss]
           ELSE IF ss[id].filler = "cancelled"
           THEN [cpc |-> "raised", ck |-> k, sessions |-> ss]
           ELSE CloseFrom(k + 1, [ss EXCEPT ![id] = SuperClose(@)])

\* No close() call is in flight.
NoClose == cpc = "idle"

\* Scraper.register_scraper with attach_session=True (scraper.py:34-54).
RegisterWithSession(name, priority, check, limited) ==
  /\ NoCall /\ NoClose
  /\ nextId < MaxRegs
  /\ LET s == ScraperFunction(nextId + 1, name, priority, check)
         scr == SortDesc(Append(scrapers, s))
     IN  /\ scrapers' = scr
         /\ sorted_scrapers' = BuildSortedScrapers(scr)
         /\ sessions' = (s.id :> NewSession(limited)) @@ sessions
  /\ nextId' = nextId + 1
  /\ UNCHANGED <<callback, cpc, ck, closeCalls>>
  /\ UNCHANGED <<call, rate_limit, retry_count, qsize, attempt, timed, batch, source, flight, search>>

\* The caller awaits something else: the event loop takes a turn and every
\* task created since the last one runs up to its first suspension.
LoopTurn ==
  /\ NoCall /\ NoClose
  /\ \E id \in DOMAIN sessions : sessions[id].filler = "pending"
  /\ sessions' = [id \in DOMAIN sessions |->
                    [sessions[id] EXCEPT !.filler = FillerTurn(@)]]
  /\ UNCHANGED <<cpc, ck, closeCalls>>
  /\ UNCHANGED <<registry, call>>
  /\ UNCHANGED <<rate_limit, retry_count, qsize, attempt, timed, batch, source, flight, search>>

\* A call of Scraper.close() up to its first suspension.
StartClose ==
  /\ NoCall /\ NoClose
  /\ closeCalls < MaxCloses
  /\ closeCalls' = closeCalls + 1
  /\ LET c == CloseFrom(1, sessions)
     IN  cpc' = c.cpc /\ ck' = c.ck /\ sessions' = c.sessions
  /\ UNCHANGED <<registry, call>>
  /\ UNCHANGED <<rate_limit, retry_count, qsize, attempt, timed, batch, source, flight, search>>

\* close() is suspended in wait_for (utils.py:67) on the filler task of
\* scraper ck, which cancel() asked to stop. The event loop takes a turn: that
\* task ends, the other tasks run, and wait_for returns or raises
\* CancelledError, which nothing in close() catches.
ResumeClose ==
  /\ cpc = "waitFiller"
  /\ LET id == scrapers[ck].id
         ss == [x \in DOMAIN sessions |->
                  [sessions[x] EXCEPT !.filler =
                     IF x = id THEN FillerCancelled(@) ELSE FillerTurn(@)]]
     IN  IF ss[id].filler = "cancelled"
         THEN cpc' = "raised" /\ ck' = ck /\ sessions' = ss
         ELSE LET c == CloseFrom(ck + 1, [ss EXCEPT ![id] = SuperClose(@)])
              IN  cpc' = c.cpc /\ ck' = c.ck /\ sessions' = c.sessions
  /\ UNCHANGED closeCalls
  /\ UNCHANGED <<registry, call>>
  /\ UNCHANGED <<rate_limit, retry_count, qsize, attempt, timed, batch, source, flight, search>>

\* The caller takes the result (or the exception) of close().
EndClose ==
  /\ cpc \in {"returned", "raised"}
  /\ cpc' = "idle" /\ ck' = 0
  /\ UNCHANGED <<sessions, closeCalls>>
  /\ UNCHANGED <<registry, call>>
  /\ UNCHANGED <<rate_limit, retry_count, qsize, attempt, timed, batch, source, flight, search>>

\* The registry, its sessions and close(); no scrape() call.
NextClose ==
  \/ \E n \in Names, p \in Priorities, l \in RateLimited :
       RegisterWithSession(n, p, CheckOf(n), l)
  \/ \E n \in Names, p \in Priorities :
       NoClose /\ RegisterScraper(n, p, CheckOf(n))
  \/ \E n \in Names : NoClose /\ DeregisterScraper(n)
  \/ LoopTurn
  \/ StartClose
  \/ ResumeClose
  \/ EndClose

SpecClose == Init /\ [][NextClose]_vars

\* ------------------------------------------- one session: the retry loop
\* rate_limit is kept as a whole number of requests per RateDen seconds.
RateDen == 10
\* rate_limit is None: kept as a number that no rate_limit in use equals.
NoRate == -1
\* Values of rate_limit: None, 0.5 per second (lib.py:302-313), 2 per second.
Rates == {NoRate, 5, 20}
\* ThrottledClientSession.TIME_BASE, seconds (utils.py:29-30).
TIME_BASE == 5
\* int() of the fraction num / den: the fraction part is cut off, towards
\* zero.
Truncate(num, den) == IF num >= 0 THEN num \div den ELSE -((-num) \div den)
\* queue_size = int(rate_limit * self.TIME_BASE) (utils.py:51).
QueueSize(rate) == Truncate(rate * TIME_BASE, RateDen)

\* Values of rate_limit a session may be constructed with: those of Rates
\* and -2, 0, 0.1 and 0.2 per second.
ConstructorRates == Rates \cup {-20, 0, 1, 2}

\* A faulty test that refuses only what is not positive.
TooLow_NotPositive(rate) == rate # NoRate /\ rate <= 0

\* rate_limit is not None and queue_size < 1 (utils.py:50-52): __init__
\* raises ValueError before the queue and the filler task are created.
TooLow(rate) == rate # NoRate /\ QueueSize(rate) < 1

RetryCounts == 0..MaxRetryCount
\* The default of retry_count (utils.py:33).
DefaultRetryCount == 5
\* Statuses of the responses of the underlying client.
Statuses == {200, 404, 429, 503, 504}
\* utils.py:108.
SERVICE_LIMIT_REACHED_STATUS_CODES == {429, 503, 504}

\* A faulty test that takes 429 alone for a service limit.
ServiceLimitReached_Only429(st) == st = 429

\* response.status in self.SERVICE_LIMIT_REACHED_STATUS_CODES (utils.py:114).
ServiceLimitReached(st) == st \in SERVICE_LIMIT_REACHED_STATUS_CODES

\* A faulty loop bound: retry_count attempts instead of retry_count + 1.
Attempts_NoFirst(rc) == rc

\* range(self._retry_count + 1) (utils.py:111): attempts of one call.
Attempts(rc) == rc + 1

\* A faulty test that backs off without a rate limit too.
CanBackOff_Always(rate) == TRUE

\* self._rate_limit is not None (utils.py:116).
CanBackOff(rate) == rate # NoRate

\* No _request call is in flight; nothing is remembered of the last one.
NoAttempt ==
  /\ rpc = "idle" /\ retry_num = 0 /\ responses = <<>>
  /\ sent = 0 /\ acquired = 0 /\ slept = 0 /\ err = "none"

\* Nothing of the timed session is in use.
NoBucket ==
  /\ now = 0 /\ session = NewSession(FALSE) /\ ts_before_sleep = 0 /\ wake = 0
  /\ waiting = 0 /\ issued = 0 /\ burst = 0 /\ dispatched = 0
  /\ lastDispatch = 0 /\ recent = <<>> /\ produced = 0
  /\ clamped = FALSE /\ late = FALSE /\ spc = "open"
  /\ backoff = 0 /\ retried = 0

\* A session of any rate_limit and retry_count, its queue still empty, and
\* no Scraper.
InitRetry ==
  /\ NoScraper
  /\ rate_limit \in Rates
  /\ retry_count \in RetryCounts
  /\ qsize = 0
  /\ NoAttempt
  /\ NoBucket
  /\ NoBatch
  /\ NoSource
  /\ NoFlight
  /\ NoSearch

\* A call of _request up to its first await (utils.py:110-112).
StartRequest ==
  /\ rpc = "idle"
  /\ IF Attempts(retry_count) > 0
     THEN rpc' = "waitToken" /\ err' = err
     ELSE rpc' = "raised" /\ err' = "RuntimeError"
  /\ UNCHANGED <<retry_num, responses, sent, acquired, slept>>
  /\ UNCHANGED <<rate_limit, retry_count, qsize>>
  /\ UNCHANGED <<registry, call, lifecycle, timed, batch, source, flight, search>>

\* _wait_can_make_request (utils.py:103-106): without a queue nothing to wait
\* for; with one, take a token as soon as there is one.
WaitCanMakeRequest ==
  /\ rpc = "waitToken"
  /\ IF rate_limit = NoRate
     THEN UNCHANGED <<qsize, acquired>>
     ELSE /\ qsize > 0
          /\ qsize' = qsize - 1
          /\ acquired' = acquired + 1
  /\ rpc' = "sending"
  /\ UNCHANGED <<retry_num, responses, sent, slept, err>>
  /\ UNCHANGED <<rate_limit, retry_count>>
  /\ UNCHANGED <<registry, call, lifecycle, timed, batch, source, flight, search>>

\* The underlying client sent the request and its response is in
\* (utils.py:113-116, 126-128).
Respond(st) ==
  /\ rpc = "sending"
  /\ sent' = sent + 1
  /\ responses' = Append(responses, st)
  /\ IF ~ServiceLimitReached(st)
     THEN rpc' = "returned" /\ err' = err
     ELSE IF CanBackOff(rate_limit)
     THEN rpc' = "backoff" /\ err' = err
     ELSE rpc' = "raised" /\ err' = "NotImplementedError"
  /\ UNCHANGED <<retry_num, acquired, slept>>
  /\ UNCHANGED <<rate_limit, retry_count, qsize>>
  /\ UNCHANGED <<registry, call, lifecycle, timed, batch, source, flight, search>>

\* The underlying client sent the request and raised (utils.py:113): the
\* exception leaves _request.
RequestRaises ==
  /\ rpc = "sending"
  /\ sent' = sent + 1
  /\ rpc' = "raised" /\ err' = "ClientError"
  /\ UNCHANGED <<retry_num, responses, acquired, slept>>
  /\ UNCHANGED <<rate_limit, retry_count, qsize>>
  /\ UNCHANGED <<registry, call, lifecycle, timed, batch, source, flight, search>>

\* The backoff sleep is over (utils.py:117-125), then the next iteration or
\* the loop's else clause (utils.py:129-132).
Backoff ==
  /\ rpc = "backoff"
  /\ slept' = slept + 1
  /\ IF retry_num + 1 < Attempts(retry_count)
     THEN rpc' = "waitToken" /\ retry_num' = retry_num + 1 /\ err' = err
     ELSE rpc' = "raised" /\ retry_num' = retry_num /\ err' = "RuntimeError"
  /\ UNCHANGED <<responses, sent, acquired>>
  /\ UNCHANGED <<rate_limit, retry_count, qsize>>
  /\ UNCHANGED <<registry, call, lifecycle, timed, batch, source, flight, search>>

\* The filler puts a token into the queue (utils.py:90-94); when is left open.
Refill ==
  /\ rate_limit # NoRate
  /\ qsize < QueueSize(rate_limit)
  /\ qsize' = qsize + 1
  /\ UNCHANGED <<rate_limit, retry_count, attempt>>
  /\ UNCHANGED <<registry, call, lifecycle, timed, batch, source, flight, search>>

\* The caller takes the response (or the exception) of _request.
EndRequest ==
  /\ rpc \in {"returned", "raised"}
  /\ rpc' = "idle" /\ retry_num' = 0 /\ responses' = <<>>
  /\ sent' = 0 /\ acquired' = 0 /\ slept' = 0 /\ err' = "none"
  /\ UNCHANGED <<rate_limit, retry_count, qsize>>
  /\ UNCHANGED <<registry, call, lifecycle, timed, batch, source, flight, search>>

NextRetry ==
  \/ StartRequest
  \/ WaitCanMakeRequest
  \/ \E st \in Statuses : Respond(st)
  \/ RequestRaises
  \/ Backoff
  \/ Refill
  \/ EndRequest

SpecRetry == InitRetry /\ [][NextRetry]_vars

\* --------------------------------------- one session: the token bucket
\* Time is counted in ticks; TicksPerSec ticks make a second.
TicksPerSec == 4
\* time.perf_counter() and the event loop's clock read the same time.
OneSecond == TicksPerSec

\* sleep_interval = max(1 / rate_limit, 1e-3) (utils.py:80), in ticks; the
\* rates of Rates are far below 1000 per second.
SleepTicks(rate) == (RateDen * TicksPerSec) \div rate

\* A faulty count that rounds up where int() cuts off.
TokensFor_RoundedUp(elapsed, rate) ==
  (elapsed * rate + RateDen * TicksPerSec - 1) \div (RateDen * TicksPerSec)

\* int((ts_after_sleep - ts_before_sleep) * rate_limit) (utils.py:86-88).
TokensFor(elapsed, rate) == (elapsed * rate) \div (RateDen * TicksPerSec)

\* A faulty min that gives its first argument.
Min_First(a, b) == a

Min(a, b) == IF a < b THEN a ELSE b

\* The dispatch times not yet a second old at time now.
Recent(ds, time) == SelectSeq(ds, LAMBDA d : time - d < OneSecond)

\* n times the time now.
Times(n, time) == [k \in 1..n |-> time]

\* ThrottledClientSession.__init__ (utils.py:46-61) at time 0: an empty
\* queue and, with a rate_limit, a filler task that has not run yet; or, the
\* rate_limit being too low, ValueError and no session ("unbuilt").
InitThrottle ==
  /\ NoScraper
  /\ NoAttempt
  /\ retry_count = DefaultRetryCount
  /\ rate_limit \in ConstructorRates
  /\ qsize = 0
  /\ now = 0
  /\ IF TooLow(rate_limit)
     THEN session = NewSession(FALSE) /\ spc = "unbuilt"
     ELSE session = NewSession(rate_limit # NoRate) /\ spc = "open"
  /\ ts_before_sleep = 0 /\ wake = 0
  /\ waiting = 0 /\ issued = 0 /\ burst = 0 /\ dispatched = 0
  /\ lastDispatch = 0 /\ recent = <<>> /\ produced = 0
  /\ clamped = FALSE /\ late = FALSE
  /\ backoff = 0 /\ retried = 0
  /\ NoBatch
  /\ NoSource
  /\ NoFlight
  /\ NoSearch

\* What the actions of the timed session never touch.
untimed == <<registry, call, lifecycle, retry_count, attempt, batch,
            source, flight, search>>

\* The filler task's first run (utils.py:72-97): no time has passed between
\* lines 81 and 84, so nothing is added, and it goes to sleep.
FillerStart ==
  /\ spc = "open"
  /\ session.filler = "pending"
  /\ session' = [session EXCEPT !.filler = FillerTurn(@)]
  /\ ts_before_sleep' = now
  /\ wake' = now + SleepTicks(rate_limit)
  /\ UNCHANGED <<now, rate_limit, qsize, waiting, issued, burst, dispatched,
                 lastDispatch, recent, produced, clamped, late, spc>>
  /\ UNCHANGED <<backoff, retried>>
  /\ UNCHANGED untimed

\* The filler task wakes from its sleep, on time or late, and runs one
\* iteration of its loop (utils.py:84-97).
FillerWake ==
  /\ spc = "open"
  /\ session.filler = "sleeping"
  /\ now >= wake
  /\ LET n == TokensFor(now - ts_before_sleep, rate_limit)
         available_space == QueueSize(rate_limit) - qsize
         add == Min(n, available_space)
     IN  /\ qsize' = qsize + add
         /\ produced' = produced + add
         /\ clamped' = (clamped \/ n > available_space)
  /\ late' = (late \/ now > wake)
  /\ ts_before_sleep' = now
  /\ wake' = now + SleepTicks(rate_limit)
  /\ UNCHANGED <<now, rate_limit, session, waiting, issued, burst, dispatched,
                 lastDispatch, recent, spc>>
  /\ UNCHANGED <<backoff, retried>>
  /\ UNCHANGED untimed

\* n calls of _request arrive at once (utils.py:110-113): without a queue
\* they go to the underlying client at once, with one they wait in
\* queue.get().
Issue(n) ==
  /\ spc = "open"
  /\ issued + backoff + retried + n <= MaxRequests
  /\ issued' = issued + n
  /\ burst' = IF now = 0 THEN burst + n ELSE burst
  /\ IF rate_limit = NoRate
     THEN /\ dispatched' = dispatched + n
          /\ lastDispatch' = now
          /\ recent' = recent \o Times(n, now)
          /\ UNCHANGED waiting
     ELSE /\ waiting' = waiting + n
          /\ UNCHANGED <<dispatched, lastDispatch, recent>>
  /\ UNCHANGED <<now, rate_limit, qsize, session, ts_before_sleep, wake,
                 produced, clamped, late, spc>>
  /\ UNCHANGED <<backoff, retried>>
  /\ UNCHANGED untimed

\* A faulty _wait_can_make_request that returns without a token.
Acquire_NoToken ==
  /\ waiting > 0
  /\ waiting' = waiting - 1
  /\ dispatched' = dispatched + 1
  /\ lastDispatch' = now
  /\ recent' = Append(recent, now)
  /\ UNCHANGED <<now, rate_limit, qsize, session, ts_before_sleep, wake,
                 issued, burst, produced, clamped, late, spc>>
  /\ UNCHANGED <<backoff, retried>>
  /\ UNCHANGED untimed

\* A waiting call gets a token (utils.py:105-106) and goes to the underlying
\* client (utils.py:113).
Acquire ==
  /\ waiting > 0
  /\ qsize > 0
  /\ waiting' = waiting - 1
  /\ qsize' = qsize - 1
  /\ dispatched' = dispatched + 1
  /\ lastDispatch' = now
  /\ recent' = Append(recent, now)
  /\ UNCHANGED <<now, rate_limit, session, ts_before_sleep, wake, issued,
                 burst, produced, clamped, late, spc>>
  /\ UNCHANGED <<backoff, retried>>
  /\ UNCHANGED untimed

\* A request that went to the underlying client is answered with a service
\* limit status and its call goes to sleep (utils.py:113-123). Calls are not
\* told apart: with no more than MaxBackoffs such answers in all, and that
\* no more than retry_count, every call that sleeps has an iteration of its
\* loop left.
ServiceLimit ==
  /\ rate_limit # NoRate
  /\ ~session.closed
  /\ backoff + retried < dispatched
  /\ backoff + retried < Min(MaxBackoffs, retry_count)
  /\ issued + backoff + retried < MaxRequests
  /\ backoff' = backoff + 1
  /\ UNCHANGED <<now, rate_limit, qsize, session, ts_before_sleep, wake,
                 waiting, issued, burst, dispatched, lastDispatch, recent,
                 produced, clamped, late, spc, retried>>
  /\ UNCHANGED untimed

\* The backoff sleep of a call is over: its next attempt waits in queue.get()
\* like a first one (utils.py:123-125, 111-112).
BackoffEnds ==
  /\ backoff > 0
  /\ backoff' = backoff - 1
  /\ retried' = retried + 1
  /\ waiting' = waiting + 1
  /\ UNCHANGED <<now, rate_limit, qsize, session, ts_before_sleep, wake,
                 issued, burst, dispatched, lastDispatch, recent, produced,
                 clamped, late, spc>>
  /\ UNCHANGED untimed

\* Time passes. The event loop is running: a task that was created runs
\* first, a call that can take a token takes it first, and the filler sleeps
\* at most MaxJitter ticks longer than it asked for.
Tick ==
  /\ now < MaxTime
  /\ spc \notin {"unbuilt", "waitFiller"}
  /\ session.filler # "pending"
  /\ (spc = "open" /\ session.filler = "sleeping") => now < wake + MaxJitter
  /\ ~(waiting > 0 /\ qsize > 0)
  /\ now' = now + 1
  /\ recent' = Recent(recent, now + 1)
  /\ UNCHANGED <<rate_limit, qsize, session, ts_before_sleep, wake, waiting,
                 issued, burst, dispatched, lastDispatch, produced, clamped,
                 late, spc>>
  /\ UNCHANGED <<backoff, retried>>
  /\ UNCHANGED untimed

\* A faulty close() that closes the underlying session without cancelling
\* the filler task or waiting for it.
StartSessionClose_NoWait ==
  /\ spc = "open"
  /\ spc' = "closed"
  /\ session' = SuperClose(session)
  /\ UNCHANGED <<now, rate_limit, qsize, ts_before_sleep, wake, waiting,
                 issued, burst, dispatched, lastDispatch, recent, produced,
                 clamped, late>>
  /\ UNCHANGED <<backoff, retried>>
  /\ UNCHANGED untimed

\* A call of close() up to its suspension (utils.py:63-68).
StartSessionClose ==
  /\ spc = "open"
  /\ IF FillerRunning(session.filler)
     THEN spc' = "waitFiller" /\ session' = session
     ELSE spc' = "closed" /\ session' = SuperClose(session)
  /\ UNCHANGED <<now, rate_limit, qsize, ts_before_sleep, wake, waiting,
                 issued, burst, dispatched, lastDispatch, recent, produced,
                 clamped, late>>
  /\ UNCHANGED <<backoff, retried>>
  /\ UNCHANGED untimed

\* close() is suspended in wait_for (utils.py:67); the filler task ends and
\* wait_for returns, or raises CancelledError.
ResumeSessionClose ==
  /\ spc = "waitFiller"
  /\ LET s == [session EXCEPT !.filler = FillerCancelled(@)]
     IN  IF s.filler = "cancelled"
         THEN spc' = "raised" /\ session' = s
         ELSE spc' = "closed" /\ session' = SuperClose(s)
  /\ UNCHANGED <<now, rate_limit, qsize, ts_before_sleep, wake, waiting,
                 issued, burst, dispatched, lastDispatch, recent, produced,
                 clamped, late>>
  /\ UNCHANGED <<backoff, retried>>
  /\ UNCHANGED untimed

NextThrottle ==
  \/ FillerStart
  \/ FillerWake
  \/ \E n \in 1..MaxRequests : Issue(n)
  \/ Acquire
  \/ ServiceLimit
  \/ BackoffEnds
  \/ Tick
  \/ StartSessionClose
  \/ ResumeSessionClose

SpecThrottle == InitThrottle /\ [][NextThrottle]_vars

\* ------------------------------------------------ the filler, for ever
\* The session with a clock that has no end. time.perf_counter() has no
\* defined origin and the filler reads differences of it only
\* (utils.py:81-96), so the origin is moved to the time of each fill; the
\* records of what was sent when are left alone.

\* What these steps leave alone.
unfilled == <<burst, lastDispatch, recent, produced, clamped, late, backoff,
             retried>>

\* A faulty sleep interval of half the time of one token.
FillerSleep_Half(rate) == SleepTicks(rate) \div 2

\* sleep_interval, max(1 / rate_limit, 1e-3) (utils.py:80).
FillerSleep(rate) == SleepTicks(rate)

\* One iteration of the filler's loop (utils.py:84-97), on time or late.
Fill ==
  /\ spc = "open"
  /\ session.filler = "sleeping"
  /\ now >= wake
  /\ LET n == TokensFor(now - ts_before_sleep, rate_limit)
         available_space == QueueSize(rate_limit) - qsize
     IN  qsize' = qsize + Min(n, available_space)
  /\ now' = 0
  /\ ts_before_sleep' = 0
  /\ wake' = FillerSleep(rate_limit)
  /\ UNCHANGED <<rate_limit, session, waiting, issued, dispatched, spc>>
  /\ UNCHANGED unfilled
  /\ UNCHANGED untimed

\* Time passes for the sleeping filler; it wakes no later than MaxJitter
\* after its time, and a request that can take a token takes it first.
Elapse ==
  /\ spc = "open"
  /\ session.filler = "sleeping"
  /\ now < wake + MaxJitter
  /\ ~(waiting > 0 /\ qsize > 0)
  /\ now' = now + 1
  /\ UNCHANGED <<rate_limit, qsize, session, ts_before_sleep, wake, waiting,
                 issued, dispatched, spc>>
  /\ UNCHANGED unfilled
  /\ UNCHANGED untimed

\* A call of _request arrives (utils.py:110-112) and waits in queue.get().
Arrive ==
  /\ spc = "open"
  /\ rate_limit # NoRate
  /\ issued < MaxRequests
  /\ issued' = issued + 1
  /\ waiting' = waiting + 1
  /\ UNCHANGED <<now, rate_limit, qsize, session, ts_before_sleep, wake,
                 dispatched, spc>>
  /\ UNCHANGED unfilled
  /\ UNCHANGED untimed

\* queue.get() returns to a waiting request, which goes to the underlying
\* client (utils.py:104-106, 113).
Take ==
  /\ waiting > 0
  /\ qsize > 0
  /\ waiting' = waiting - 1
  /\ qsize' = qsize - 1
  /\ dispatched' = dispatched + 1
  /\ UNCHANGED <<now, rate_limit, session, ts_before_sleep, wake, issued,
                 spc>>
  /\ UNCHANGED unfilled
  /\ UNCHANGED untimed

NextFair ==
  \/ FillerStart
  \/ Fill
  \/ Elapse
  \/ Arrive
  \/ Take
  \/ StartSessionClose
  \/ ResumeSessionClose

\* The event loop runs every task that is ready (the filler's first run, its
\* wake-up when the sleep is over, a request whose get() can return), and
\* time passes.
SpecFair ==
  /\ InitThrottle
  /\ [][NextFair]_vars
  /\ WF_vars(FillerStart)
  /\ WF_vars(Fill)
  /\ WF_vars(Elapse)
  /\ WF_vars(Take)

\* ------------------------------------------------------- batch_scrape
\* Scraper.batch_scrape (scraper.py:127-193). The preprocessor, scrape() and
\* the parser of each paper are inputs of the batch: what each of them
\* returns or raises is chosen when it finishes. A paper is its paperId; the
\* path of its file is dump_dir/<paperId>.pdf, one path per paperId.
MaxPapers == 5
MaxBatchSize == 2
MaxLimit == 3

PaperIds == 1..MaxPapers
\* The paperIds are numbered in the order of their first appearance in the
\* batch; papers may share one.
FirstAppearance(ps) ==
  \A k \in 1..Len(ps) :
    \/ ps[k] = 1
    \/ \E m \in 1..(k - 1) : ps[k] <= ps[m] + 1
BatchSizes == 1..MaxBatchSize
Limits == {NoLimit} \cup 0..MaxLimit

\* How `await paper_preprocessor(paper)` and the path computed after it end
\* (scraper.py:161-167): the paper, RuntimeError, an exception of another
\* class, or a paper without "paperId" (KeyError at line 167).
PreprocessOutcomes == {"ok", "RuntimeError", "other", "noPaperId"}
\* How `await self.scrape(...)` ends (scraper.py:168); scrape() raises when
\* the callback or the logging of a failure raises (scraper.py:108-123).
ScrapeOutcomes == {"true", "false", "raise"}
\* How `await paper_parser(paper)` ends (scraper.py:170).
ParseOutcomes == {"ok", "RuntimeError", "other"}

\* A scrape_parse coroutine that has not been created: st is its position,
\* i the offset it was given, pre, scraped and parse the history of its
\* preprocessor, of its scrape() calls and of its parser.
NewJob == [st |-> "new", i |-> -1, pre |-> "none", scraped |-> 0,
           parse |-> "none"]

Running == {"pre", "scrape", "parse"}
Over == {"ok", "false", "raised"}

\* papers[i:i + batch_size] (scraper.py:187), as 1-based positions.
ChunkOf(start) ==
  {k \in 1..Len(papers) : start < k /\ k <= start + batch_size}

\* The i given to scrape_parse for the j-th paper of the chunk (line 185).
OffsetOf_InChunk(start, pos) == pos

OffsetOf(start, pos) == start + pos

\* gather (scraper.py:184-189) resumes batch_scrape with the results once
\* every coroutine of the chunk has returned.
ChunkDone_Any(start) ==
  \E k \in ChunkOf(start) : jobs[k].st \in {"ok", "false"}

ChunkDone(start) ==
  \A k \in ChunkOf(start) : jobs[k].st \in {"ok", "false"}

\* `limit is not None and len(aggregated) >= limit` (scraper.py:191).
LimitReached_Above(n, lim) == lim # NoLimit /\ n > lim

LimitReached(n, lim) == lim # NoLimit /\ n >= lim

\* The greatest member of a set of positions.
Last(ks) == CHOOSE k \in ks : \A m \in ks : m <= k

\* aggregated |= {r[0]: r[1] for r in results if r is not False}
\* (scraper.py:182-190): of the chunk's papers that returned a pair, the last
\* one of each path gives the path's value.
Merge(agg, start) ==
  LET done == {k \in ChunkOf(start) : jobs[k].st = "ok"}
      keys == {papers[k] : k \in done}
  IN  [path \in keys \cup DOMAIN agg |->
         IF path \in keys
         THEN Last({k \in done : papers[k] = path})
         ELSE agg[path]]

\* What scrape_parse does with the end of the parser (scraper.py:169-179):
\* it returns the pair, returns False on RuntimeError, or raises.
AfterParser_Uncaught(out) == IF out = "ok" THEN "ok" ELSE "raised"

AfterParser(out) ==
  CASE out = "ok" -> "ok"
    [] out = "RuntimeError" -> "false"
    [] OTHER -> "raised"

\* The coroutines of the chunk are created with their offsets and scheduled.
Gathered(start) ==
  [k \in DOMAIN jobs |->
     IF k \in ChunkOf(start)
     THEN [jobs[k] EXCEPT !.st = "pre", !.i = OffsetOf(start, k - start - 1)]
     ELSE jobs[k]]

\* A batch_scrape call about to be made, with any papers, batch_size and
\* limit; the Scraper and its sessions are at rest.
InitBatch ==
  /\ NoScraper
  /\ rate_limit = 0 /\ retry_count = 0 /\ qsize = 0
  /\ NoAttempt
  /\ NoBucket
  /\ papers \in UNION {[1..n -> PaperIds] : n \in 0..MaxPapers}
  /\ FirstAppearance(papers)
  /\ batch_size \in BatchSizes
  /\ limit \in Limits
  /\ bpc = "idle"
  /\ chunk = 0
  /\ jobs = [k \in 1..Len(papers) |-> NewJob]
  /\ aggregated = <<>>
  /\ files = {}
  /\ startedWith = <<>>
  /\ NoSource
  /\ NoFlight
  /\ NoSearch

unbatched == <<registry, call, lifecycle, rate_limit, retry_count, qsize,
               attempt, timed, source, flight, search>>

\* batch_scrape up to its first gather (scraper.py:180-184).
BatchScrape ==
  /\ bpc = "idle"
  /\ IF Len(papers) = 0
     THEN bpc' = "returned" /\ UNCHANGED <<jobs, startedWith>>
     ELSE /\ bpc' = "gather"
          /\ jobs' = Gathered(0)
          /\ startedWith' = Append(startedWith, 0)
  /\ UNCHANGED <<papers, batch_size, limit, chunk, aggregated, files>>
  /\ UNCHANGED unbatched

\* An exception of a coroutine ends the gather, and batch_scrape with it, at
\* once; the other coroutines of the chunk go on.
GatherRaises == IF bpc = "gather" THEN "raised" ELSE bpc

\* scrape_parse from its start to the scrape() call (scraper.py:161-168).
PaperPreprocessor(k, out) ==
  /\ jobs[k].st = "pre"
  /\ jobs' = [jobs EXCEPT ![k].pre = out,
                          ![k].st = CASE out = "ok" -> "scrape"
                                      [] out = "RuntimeError" -> "false"
                                      [] OTHER -> "raised"]
  /\ bpc' = IF out \in {"other", "noPaperId"} THEN GatherRaises ELSE bpc
  /\ UNCHANGED <<papers, batch_size, limit, chunk, aggregated, files,
                 startedWith>>
  /\ UNCHANGED unbatched

\* scrape() returns or raises (scraper.py:168-170): True after the file at
\* path was written, and the parser is called; False, and scrape_parse
\* returns False.
ScrapeReturns(k, out) ==
  /\ jobs[k].st = "scrape"
  /\ jobs' = [jobs EXCEPT ![k].scraped = @ + 1,
                          ![k].st = CASE out = "true" -> "parse"
                                      [] out = "false" -> "false"
                                      [] OTHER -> "raised"]
  /\ files' = IF out = "true" THEN files \cup {papers[k]} ELSE files
  /\ bpc' = IF out = "raise" THEN GatherRaises ELSE bpc
  /\ UNCHANGED <<papers, batch_size, limit, chunk, aggregated, startedWith>>
  /\ UNCHANGED unbatched

\* The parser returns or raises (scraper.py:169-179).
PaperParser(k, out) ==
  /\ jobs[k].st = "parse"
  /\ jobs' = [jobs EXCEPT ![k].parse = out, ![k].st = AfterParser(out)]
  /\ bpc' = IF out = "other" THEN GatherRaises ELSE bpc
  /\ UNCHANGED <<papers, batch_size, limit, chunk, aggregated, files,
                 startedWith>>
  /\ UNCHANGED unbatched

\* The gather of a chunk returns: the results are merged, and the loop ends
\* on the limit or on the last chunk, or gathers the next chunk
\* (scraper.py:181-193).
ChunkEnd ==
  /\ bpc = "gather"
  /\ ChunkDone(chunk)
  /\ aggregated' = Merge(aggregated, chunk)
  /\ IF \/ LimitReached(Cardinality(DOMAIN aggregated'), limit)
        \/ chunk + batch_size >= Len(papers)
     THEN bpc' = "returned" /\ UNCHANGED <<chunk, jobs, startedWith>>
     ELSE /\ bpc' = "gather"
          /\ chunk' = chunk + batch_size
          /\ jobs' = Gathered(chunk + batch_size)
          /\ startedWith' =
               Append(startedWith, Cardinality(DOMAIN aggregated'))
  /\ UNCHANGED <<papers, batch_size, limit, files>>
  /\ UNCHANGED unbatched

NextBatch ==
  \/ BatchScrape
  \/ \E k \in 1..Len(papers) :
       \/ \E out \in PreprocessOutcomes : PaperPreprocessor(k, out)
       \/ \E out \in ScrapeOutcomes : ScrapeReturns(k, out)
       \/ \E out \in ParseOutcomes : PaperParser(k, out)
  \/ ChunkEnd

SpecBatch == InitBatch /\ [][NextBatch]_vars

\* ------------------------------------------ source strategies (lib.py)
\* The registrations of default_scraper, in order (lib.py:301-315); every
\* one keeps the default check=True. The sessions attached to the first
\* seven are not part of this view of the registry.
MaxDefaults == 2

DefaultRegistrations ==
  << [name |-> "arxiv", priority |-> 10],
     [name |-> "medrxiv", priority |-> 10],
     [name |-> "biorxiv", priority |-> 10],
     [name |-> "chemrxiv", priority |-> 10],
     [name |-> "pmc", priority |-> 9],
     [name |-> "pubmed", priority |-> 9],
     [name |-> "openaccess", priority |-> 9],
     [name |-> "local", priority |-> 12] >>

\* A faulty Scraper.__init__ whose list is shared with the Scraper made before.
FreshScrapers_Shared ==
  IF registries = <<>> THEN <<>> ELSE registries[Len(registries)]

\* Scraper.__init__ (scraper.py:27-32): self.scrapers = [], a list of its own.
FreshScrapers == <<>>

\* register_scraper (scraper.py:34-54) for each registration in turn.
RECURSIVE RegisterAll(_, _)
RegisterAll(scr, regs) ==
  IF regs = <<>> THEN scr
  ELSE LET r == Head(regs)
           s == ScraperFunction(Len(scr) + 1, r.name, r.priority, TRUE)
       IN  RegisterAll(SortDesc(Append(scr, s)), Tail(regs))

\* The paper records: externalIds is a mapping, as in every record the
\* searches build (lib.py:449, 883). Its "DOI" is absent, an arXiv DOI
\* (last path segment starts with "arXiv"), a bioRxiv/medRxiv DOI (starts
\* with "10.1101/"), a ChemRxiv DOI (contains "chemrxiv") or another DOI.
\* openAccessPdf is absent, None, a mapping without a url, or one with a url.
DOIs == {"none", "arxiv", "xiv", "chemrxiv", "other"}
OtherIds == {"ArXiv", "PubMedCentral", "PubMed"}
OpenAccessPdfs == {"absent", "None", "nourl", "url"}
Records == [doi : DOIs, ids : SUBSET OtherIds, openAccessPdf : OpenAccessPdfs]

\* A response: r.ok, and what it carries: a PDF; HTML with the link or id
\* the helper searches for; HTML without it; or a page with "No paper" or
\* "Invalid article ID" in its text.
Responses == [ok : BOOLEAN, content : {"pdf", "link", "html", "nopaper"}]

\* likely_pdf (lib.py:82-92).
LikelyPdf(r) == r.content # "nopaper"
\* "pdf" in r.headers["Content-Type"] (lib.py:121, 161).
IsPdf(r) == r.content = "pdf"
\* re.search finds the link or the id in the text (lib.py:130-151, 174, 191).
HasLink(r) == r.content = "link"

\* A faulty pmc_scraper that reads the PubMed id.
Gate_PmcReadsPubMed(name, rec) ==
  CASE name = "arxiv" -> rec.doi = "arxiv" \/ "ArXiv" \in rec.ids
    [] name \in {"medrxiv", "biorxiv"} -> rec.doi = "xiv"
    [] name = "chemrxiv" -> rec.doi = "chemrxiv"
    [] name = "pmc" -> "PubMed" \in rec.ids
    [] name = "pubmed" -> "PubMed" \in rec.ids
    [] name = "openaccess" -> rec.openAccessPdf = "url"
    [] OTHER -> TRUE

\* The test each strategy makes before it fetches anything (lib.py:219-294);
\* when it fails the strategy returns False.
Gate(name, rec) ==
  CASE name = "arxiv" -> rec.doi = "arxiv" \/ "ArXiv" \in rec.ids
    [] name \in {"medrxiv", "biorxiv"} -> rec.doi = "xiv"
    [] name = "chemrxiv" -> rec.doi = "chemrxiv"
    [] name = "pmc" -> "PubMedCentral" \in rec.ids
    [] name = "pubmed" -> "PubMed" \in rec.ids
    [] name = "openaccess" -> rec.openAccessPdf = "url"
    [] OTHER -> TRUE

\* The download helper a strategy awaits first; local_scraper awaits none.
FirstStage(name) ==
  CASE name = "arxiv" -> "arxiv_to_pdf"
    [] name \in {"medrxiv", "biorxiv"} -> "xiv_to_pdf"
    [] name \in {"chemrxiv", "openaccess"} -> "link_to_pdf"
    [] name = "pmc" -> "find_pmc_pdf_link"
    [] name = "pubmed" -> "pubmed_to_pdf"
    [] OTHER -> "done"

Fetching == {"arxiv_to_pdf", "xiv_to_pdf", "link_to_pdf", "pdf_link",
             "find_pmc_pdf_link", "pmc_to_pdf", "pubmed_to_pdf"}

\* What a helper does with the response to its request: the helper that
\* comes next ("done" if none), whether the file is written, and how the
\* strategy ends ("none" while it goes on).
\*   arxiv_to_pdf (lib.py:95-103), xiv_to_pdf (106-113),
\*   link_to_pdf first and second request (116-153, 154-166),
\*   find_pmc_pdf_link (169-181), pubmed_to_pdf (184-196),
\*   pmc_to_pdf (199-216).
Went(next) == [next |-> next, write |-> FALSE, out |-> "none"]
Wrote == [next |-> "done", write |-> TRUE, out |-> "true"]
Raised == [next |-> "done", write |-> FALSE, out |-> "raised"]
Skipped == [next |-> "done", write |-> FALSE, out |-> "true"]

Helper(st, r) ==
  CASE st = "arxiv_to_pdf" ->
         IF ~r.ok \/ ~LikelyPdf(r) THEN Raised ELSE Wrote
    [] st = "xiv_to_pdf" ->
         IF r.ok /\ LikelyPdf(r) THEN Wrote ELSE Skipped
    [] st = "link_to_pdf" ->
         IF ~r.ok THEN Raised
         ELSE IF IsPdf(r) THEN Wrote
         ELSE IF HasLink(r) THEN Went("pdf_link")
         ELSE Raised
    [] st = "pdf_link" ->
         IF ~r.ok THEN Raised
         ELSE IF IsPdf(r) THEN Wrote
         ELSE Raised
    [] st = "find_pmc_pdf_link" ->
         IF ~r.ok THEN Raised
         ELSE IF HasLink(r) THEN Went("pmc_to_pdf")
         ELSE Raised
    [] st = "pubmed_to_pdf" ->
         IF ~r.ok THEN Raised
         ELSE IF HasLink(r) THEN Went("find_pmc_pdf_link")
         ELSE Raised
    [] OTHER ->
         IF ~LikelyPdf(r) THEN Raised ELSE Wrote

unsourced == <<registry, call, lifecycle, rate_limit, retry_count, qsize,
               attempt, timed, batch, flight, search>>

\* default_scraper() (lib.py:297-316) returns a new Scraper.
DefaultScraper ==
  /\ strategy = "none"
  /\ Len(registries) < MaxDefaults
  /\ registries' =
       Append(registries, RegisterAll(FreshScrapers, DefaultRegistrations))
  /\ UNCHANGED <<strategy, record, stage, requests, written, outcome, fetched>>
  /\ UNCHANGED unsourced

\* A registered strategy is called with a paper record, up to its first
\* request or, the test failing (or the strategy being local_scraper), to
\* its return.
StrategyCall(s, rec) ==
  /\ strategy = "none"
  /\ strategy' = s.name
  /\ record' = rec
  /\ IF Gate(s.name, rec)
     THEN /\ stage' = FirstStage(s.name)
          /\ outcome' = IF FirstStage(s.name) = "done" THEN "true" ELSE "none"
     ELSE /\ stage' = "done"
          /\ outcome' = "false"
  /\ requests' = 0 /\ written' = FALSE /\ fetched' = <<>>
  /\ UNCHANGED registries
  /\ UNCHANGED unsourced

\* session.get answers the helper's request.
Get(r) ==
  /\ stage \in Fetching
  /\ LET h == Helper(stage, r)
     IN  /\ stage' = h.next
         /\ written' = (written \/ h.write)
         /\ outcome' = h.out
  /\ requests' = requests + 1
  /\ fetched' = Append(fetched, [stage |-> stage, r |-> r])
  /\ UNCHANGED <<registries, strategy, record>>
  /\ UNCHANGED unsourced

\* session.get raises (no connection, a timeout, a malformed URL).
GetRaises ==
  /\ stage \in Fetching
  /\ stage' = "done"
  /\ outcome' = "raised"
  /\ requests' = requests + 1
  /\ UNCHANGED <<registries, strategy, record, written, fetched>>
  /\ UNCHANGED unsourced

\* The caller is done with the strategy's result.
StrategyEnd ==
  /\ stage = "done"
  /\ strategy' = "none" /\ record' = NoPaper /\ stage' = "idle"
  /\ requests' = 0 /\ written' = FALSE /\ outcome' = "none"
  /\ fetched' = <<>>
  /\ UNCHANGED registries
  /\ UNCHANGED unsourced

NextSource ==
  \/ DefaultScraper
  \/ \E g \in 1..Len(registries) : \E k \in 1..Len(registries[g]) :
       \E rec \in Records : StrategyCall(registries[g][k], rec)
  \/ \E r \in Responses : Get(r)
  \/ GetRaises
  \/ StrategyEnd

SpecSource == Init /\ [][NextSource]_vars

\* ------------------------------------------- strategies in flight
\* The scrape() calls of one chunk (scraper.py:183-188), each going through
\* its strategies under wait_for (scraper.py:96-103). A flight is one call:
\* where it is, how many strategies it has started, which of them are not
\* over yet and how many it has timed out.
NewFlight == [st |-> "loop", pos |-> 0, running |-> {}, cancelled |-> 0]

\* What the steps of the flights leave alone.
unflown == <<registry, call, lifecycle, rate_limit, retry_count, qsize,
             attempt, timed, batch, source, search>>

\* gather creates the scrape() calls of a chunk of n papers.
Gather(n) ==
  /\ flights = <<>>
  /\ flights' = [c \in 1..n |-> NewFlight]
  /\ UNCHANGED unflown

\* The loop calls the next strategy and awaits it under wait_for
\* (scraper.py:97-103), or has no strategy left and returns False (line 125).
WaitFor(c) ==
  /\ flights[c].st = "loop"
  /\ IF flights[c].pos < MaxStrategies
     THEN flights' = [flights EXCEPT ![c].st = "awaiting",
                                     ![c].pos = @ + 1,
                                     ![c].running = @ \cup {flights[c].pos + 1}]
     ELSE flights' = [flights EXCEPT ![c].st = "done"]
  /\ UNCHANGED unflown

\* The strategy awaited returns or raises in time (scraper.py:100-122): on a
\* true return the call is over, otherwise the loop goes on (as it does when
\* the success path raises).
FunctionEnds(c, out) ==
  /\ flights[c].st = "awaiting"
  /\ flights' = [flights EXCEPT ![c].running = @ \ {flights[c].pos},
                                ![c].st = IF out = "true" THEN "done"
                                          ELSE "loop"]
  /\ UNCHANGED unflown

\* A faulty wait_for that raises TimeoutError as soon as it has asked the
\* strategy to stop.
TimeoutExpires_NoWait(c) ==
  /\ flights[c].st = "awaiting"
  /\ flights' = [flights EXCEPT ![c].st = "loop", ![c].cancelled = @ + 1]
  /\ UNCHANGED unflown

\* SCRAPE_FUNCTION_TIMEOUT expires (scraper.py:102): wait_for cancels the
\* strategy's task and waits for it to be over.
TimeoutExpires(c) ==
  /\ flights[c].st = "awaiting"
  /\ flights' = [flights EXCEPT ![c].st = "cancelling", ![c].cancelled = @ + 1]
  /\ UNCHANGED unflown

\* The cancelled strategy is over; wait_for raises TimeoutError, which is
\* caught (scraper.py:116), and the loop goes on.
CancelledEnds(c) ==
  /\ flights[c].st = "cancelling"
  /\ flights' = [flights EXCEPT ![c].running = @ \ {flights[c].pos},
                                ![c].st = "loop"]
  /\ UNCHANGED unflown

NextFlight ==
  \/ \E n \in 1..MaxFlights : Gather(n)
  \/ \E c \in DOMAIN flights :
       \/ WaitFor(c)
       \/ \E out \in {"true", "false", "raise"} : FunctionEnds(c, out)
       \/ TimeoutExpires(c)
       \/ CancelledEnds(c)

SpecFlight == Init /\ [][NextFlight]_vars

\* --------------------------------------------------- a_gsearch_papers
\* The pages of one a_gsearch_papers call (lib.py:791-948): the offsets
\* requested, the total the search reports and the number of paths so far.
SearchLimits == 1..MaxSearchLimit
PageSizes == 1..MaxPageSize
Totals == 0..MaxTotal

\* What the steps of the search leave alone.
unsearched == <<registry, call, lifecycle, rate_limit, retry_count, qsize,
                attempt, timed, batch, source, flight>>

\* A call a_gsearch_papers(query, limit=lim, _limit=num) up to its request
\* (lib.py:791-855); _offset is 0 and _paths None.
GSearchPapers(lim, num) ==
  /\ gpc = "idle"
  /\ search_limit' = lim
  /\ page_size' = num
  /\ offset' = 0
  /\ paths' = 0
  /\ gpc' = "request"
  /\ UNCHANGED <<total_papers, starts>>
  /\ UNCHANGED unsearched

\* What batch_scrape(papers, pdir, parser, batch_size, limit, logger)
\* (lib.py:922-929) gives for n papers: its parameters are (papers,
\* paper_file_dump_dir, paper_preprocessor, paper_parser, batch_size, limit,
\* logger) (scraper.py:127-138), so the logger is its limit, and with one
\* paper or more `len(aggregated) >= limit` (scraper.py:191) raises TypeError
\* if nothing raised before; with none the loop body never runs and the map
\* is empty.
BatchResult(n) == IF n = 0 THEN "empty" ELSE "TypeError"

\* The recursion test and the recursive call's arguments (lib.py:931-945).
\* The step of the offset is `limit`.
NextPage(off) == off + search_limit

\* One page: the request with start = _offset and num = _limit
\* (lib.py:814-822, 855-863), its answer, the batch and the recursion test
\* (lib.py:865-948). answer is "error" (response not ok), "none" (no
\* organic_results) or "results", of which `linked` have a link; total is the
\* total_results the search reports.
Page(answer, total, linked) ==
  /\ gpc = "request"
  /\ starts' = Append(starts, offset)
  /\ CASE answer = "error" ->
            gpc' = "raised" /\ UNCHANGED <<offset, total_papers, paths>>
       [] answer = "none" ->
            gpc' = "returned" /\ UNCHANGED <<offset, total_papers, paths>>
       [] OTHER ->
            /\ starts # <<>> => total = total_papers
            /\ linked <= page_size
            /\ total_papers' = total
            /\ paths' = paths
            /\ IF BatchResult(linked) = "TypeError"
               THEN gpc' = "raised" /\ UNCHANGED offset
               ELSE IF paths < search_limit /\ offset + page_size < total
               THEN gpc' = "request" /\ offset' = NextPage(offset)
               ELSE gpc' = "returned" /\ UNCHANGED offset
  /\ UNCHANGED <<search_limit, page_size>>
  /\ UNCHANGED unsearched

NextSearch ==
  \/ \E lim \in SearchLimits, num \in PageSizes : GSearchPapers(lim, num)
  \/ \E answer \in {"error", "none", "results"}, total \in Totals,
        linked \in 0..MaxPageSize : Page(answer, total, linked)

SpecSearch == Init /\ [][NextSearch]_vars

\* ------------------------------------------------- reading the history
Registered == {scrapers[k] : k \in 1..Len(scrapers)}
InvokedIds == {invoked[k] : k \in 1..Len(invoked)}
ById(id) == CHOOSE s \in Registered : s.id = id
LastInvoked == ById(invoked[Len(invoked)])
AllInvoked == \A s \in Registered : s.id \in InvokedIds
\* A call in flight or just over (its locals still there).
InCall == pc # "idle"

\* The strategies of priority p in the order they were registered.
RECURSIVE InRegistrationOrder(_)
InRegistrationOrder(S) ==
  IF S = {} THEN <<>>
  ELSE LET f == CHOOSE x \in S : \A y \in S : x.id <= y.id
       IN  <<f>> \o InRegistrationOrder(S \ {f})

\* The priorities in use, highest first.
RECURSIVE Descending(_)
Descending(S) ==
  IF S = {} THEN <<>>
  ELSE LET m == CHOOSE x \in S : \A y \in S : x >= y
       IN  <<m>> \o Descending(S \ {m})

\* ---------------------------------------------------------------- C1
\* C1: within one scrape() call the strategies are invoked tier by tier in
\* strictly descending priority: when a strategy is about to be invoked, every
\* registered strategy of a higher priority has been invoked by this call and
\* stands recorded as "failed"; and the priorities along the invocations never
\* increase, whatever the order of registration.
C1_TiersDescending ==
  /\ \A k \in 1..Len(invoked) : \A m \in 1..Len(invoked) :
       k < m => ById(invoked[k]).priority >= ById(invoked[m]).priority
  /\ \A k \in 1..Len(invoked) : \A s \in Registered :
       s.priority > ById(invoked[k]).priority
         => \E m \in 1..(k - 1) : invoked[m] = s.id
  /\ pc = "invoke" =>
       LET p == Descending({s.priority : s \in Registered})[t]
       IN  \A s \in Registered :
             s.priority > p => s.id \in InvokedIds /\ result[s.name] = "failed"

\* Registered with priorities 5, 10, 1 in that order; invoked in the order of
\* the priorities 10, 5, 1.
C1_Witness ==
  /\ Len(scrapers) = 3 /\ Len(invoked) = 3
  /\ ById(1).priority = 5 /\ ById(2).priority = 10 /\ ById(3).priority = 1
  /\ invoked = <<2, 1, 3>>

\* ---------------------------------------------------------------- C2
\* C2: first success wins: once a strategy has returned true and its output
\* validation passed or was skipped, no further strategy is invoked by this
\* call and the call, when it ends, returns true.
C2_FirstSuccessWins ==
  winAt # 0 =>
    /\ Len(invoked) = winAt
    /\ pc \in {"succeeded", "returned"}
    /\ pc = "returned" => ret = "true"

\* ---------------------------------------------------------------- C3
\* What the claim expects of one tier: its strategies in registration order,
\* rotated so that the one at index off mod N comes first.
Rotated(b, off) == [k \in 1..Len(b) |-> b[((off + (k - 1)) % Len(b)) + 1]]

RECURSIVE Flatten(_)
Flatten(ss) == IF Len(ss) = 0 THEN <<>> ELSE Head(ss) \o Flatten(Tail(ss))

ExpectedOrder ==
  LET ps == Descending({s.priority : s \in Registered})
  IN  Flatten([n \in 1..Len(ps) |->
        Rotated(InRegistrationOrder({s \in Registered : s.priority = ps[n]}), i)])

\* C3: rotation: in a tier of N strategies and with start offset i, the first
\* strategy attempted is the one at index i mod N of the tier (in registration
\* order, no other tie-break) and the rest follow in wrap-around order; and
\* over the offsets 0..N-1 every strategy of a tier comes first exactly once.
C3_Rotation ==
  /\ InCall =>
       /\ Len(invoked) <= Len(ExpectedOrder)
       /\ \A k \in 1..Len(invoked) : invoked[k] = ExpectedOrder[k].id
  /\ \A b \in 1..Len(sorted_scrapers) :
       LET B == sorted_scrapers[b]
           N == Len(B)
       IN  \A n \in 1..N :
             Cardinality({off \in 0..(N - 1) : ScraperAt(B, off, 0) = B[n]}) = 1

\* A tier of three, offset 2: the third registered goes first, then the first,
\* then the second.
C3_Witness ==
  /\ Len(sorted_scrapers) = 1 /\ Len(scrapers) = 3
  /\ i = 2
  /\ invoked = <<3, 1, 2>>

\* ---------------------------------------------------------------- C4
\* C4: the priority buckets partition the registry exactly: the bucket sizes
\* add up to the registry size, every registered strategy is at exactly one
\* place of one bucket, a bucket holds one priority, and the buckets' priorities
\* ascend.
RECURSIVE SumLen(_)
SumLen(ss) == IF Len(ss) = 0 THEN 0 ELSE Len(Head(ss)) + SumLen(Tail(ss))

C4_BucketsPartition ==
  /\ SumLen(sorted_scrapers) = Len(scrapers)
  /\ \A k \in 1..Len(scrapers) :
       Cardinality({<<b, n>> \in (1..Len(sorted_scrapers)) \X (1..Len(scrapers)) :
                      /\ n <= Len(sorted_scrapers[b])
                      /\ sorted_scrapers[b][n] = scrapers[k]}) = 1
  /\ \A b \in 1..Len(sorted_scrapers) :
       /\ Len(sorted_scrapers[b]) >= 1
       /\ \A n \in 1..Len(sorted_scrapers[b]) :
            sorted_scrapers[b][n].priority = sorted_scrapers[b][1].priority
  /\ \A b \in 1..(Len(sorted_scrapers) - 1) :
       sorted_scrapers[b][1].priority < sorted_scrapers[b + 1][1].priority

\* Three registrations (priorities 1, 10, 1) and the deregistration of the
\* second later: one bucket left, holding the first and the third.
C4_Witness ==
  /\ nextId = 3 /\ Len(scrapers) = 2
  /\ Len(sorted_scrapers) = 1 /\ Len(sorted_scrapers[1]) = 2
  /\ {s.id : s \in Registered} = {1, 3}
  /\ \A s \in Registered : s.priority = 1

\* ---------------------------------------------------------------- C5
\* C5: strategy names are unique within the registry: no two entries of
\* self.scrapers carry the same name.
C5_NamesUnique ==
  \A k \in 1..Len(scrapers) : \A m \in 1..Len(scrapers) :
    scrapers[k].name = scrapers[m].name => k = m

\* ---------------------------------------------------------------- C6
\* C6: scrape() never raises to its caller.
C6_ScrapeNeverRaises == pc # "raised"

\* ---------------------------------------------------------------- C7
\* C7: an exception of a strategy invocation, the timeout included, is caught:
\* the strategy is recorded as "failed" and the call goes on to the next
\* strategy, so it does not end there while a strategy is still to be tried.
C7_ExceptionProceeds ==
  (InCall /\ lastOutcome \in {"raise", "timeout"}) =>
    /\ result[LastInvoked.name] = "failed"
    /\ Finished => AllInvoked

\* ---------------------------------------------------------------- C8
\* C8: output validation. A true return of a strategy registered with check on
\* whose file is not a valid PDF is recorded as "failed" and the call goes on
\* with the next strategy; with that strategy alone in the registry scrape()
\* returns false. With check off a true return counts as the success of the
\* call whatever the file is.
C8_OutputValidation ==
  (InCall /\ lastOutcome = "true") =>
    /\ (LastInvoked.check_pdf /\ ~CheckPdf(file)) =>
         /\ result[LastInvoked.name] = "failed"
         /\ Finished => AllInvoked
         /\ (Finished /\ Len(scrapers) = 1) => (pc = "returned" /\ ret = "false")
    /\ ~LastInvoked.check_pdf =>
         /\ winAt = Len(invoked)
         /\ Finished => (pc = "returned" /\ ret = "true")

\* ---------------------------------------------------------------- C9
\* C9: the outcome map. It starts with every registered name "none"
\* (not attempted); when scrape() has returned, every strategy invoked without
\* success is "failed", every strategy never invoked is still "none", true was
\* returned iff exactly one entry is "success", and false iff every strategy
\* was invoked and every entry is "failed".
Winner == IF ret = "true" THEN {invoked[Len(invoked)]} ELSE {}

C9_OutcomeMap ==
  /\ (pc = "invoke" /\ invoked = <<>>) =>
       /\ DOMAIN result = {s.name : s \in Registered}
       /\ \A n \in DOMAIN result : result[n] = "none"
  /\ pc = "returned" =>
       /\ \A s \in Registered :
            (s.id \in InvokedIds \ Winner) => result[s.name] = "failed"
       /\ \A s \in Registered :
            s.id \notin InvokedIds => result[s.name] = "none"
       /\ ret = "true" <=>
            Cardinality({n \in DOMAIN result : result[n] = "success"}) = 1
       /\ ret = "false" <=>
            (AllInvoked /\ \A n \in DOMAIN result : result[n] = "failed")

\* ---------------------------------------------------------------- C10
\* C10: with a callback set, it is awaited once after each tier exhausted
\* without success and once on the first success: while the call is in its
\* t-th tier the callback has been awaited t-1 times, a call that returns true
\* in its t-th tier has awaited it t times, and a call that returns false over
\* T tiers has awaited it T times.
C10_CallbackTiming ==
  callback =>
    /\ pc \in {"invoke", "succeeded", "tierEnd"} => cbCount = t - 1
    /\ (pc = "returned" /\ ret = "true") => cbCount = t
    /\ (pc = "returned" /\ ret = "false") => cbCount = Len(Tiers)

\* ---------------------------------------------------------------- C11
\* C11: with a timeout configured, a strategy invocation that does not return
\* is abandoned when the timeout expires and recorded as "failed"; the call
\* goes on to the next strategy, is never stuck, invokes no strategy twice, and
\* so ends by returning.
C11_TimeoutThenReturns ==
  /\ (InCall /\ lastOutcome = "timeout") =>
       /\ result[LastInvoked.name] = "failed"
       /\ Finished => (AllInvoked /\ pc = "returned")
  /\ pc \in {"invoke", "succeeded", "tierEnd"} =>
       /\ ENABLED Next
       /\ Len(invoked) <= Len(scrapers)

\* ---------------------------------------------------------------- C12
\* C12: Scraper.close() is idempotent: no call of close(), the first or a
\* later one, raises, and no session has its connector released twice.
C12_CloseIdempotent ==
  /\ cpc # "raised"
  /\ \A id \in DOMAIN sessions : sessions[id].released <= 1

\* ---------------------------------------------------------------- C13
\* C13: when Scraper.close() has returned, every session that any
\* register_scraper(attach_session=True) call on this Scraper created,
\* whatever was registered and deregistered since, is closed and its filler
\* task is over.
C13_CloseClosesEverySession ==
  cpc = "returned" =>
    \A id \in DOMAIN sessions :
      sessions[id].closed /\ ~FillerRunning(sessions[id].filler)

\* ------------------------------------------- reading the retry history
AllServiceLimits ==
  \A k \in 1..Len(responses) : responses[k] \in SERVICE_LIMIT_REACHED_STATUS_CODES
LastResponse == responses[Len(responses)]

\* ---------------------------------------------------------------- C15
\* C15: on a rate-limited session, while every response is a 429, 503 or 504,
\* each request sent was preceded by a token acquisition of its own, at most
\* retry_count + 1 requests are sent, and the call ends, after exactly
\* retry_count + 1 requests and as many tokens, by raising RuntimeError
\* (never by returning).
C15_RetryBudget ==
  (rate_limit # NoRate /\ AllServiceLimits /\ err # "ClientError") =>
    /\ acquired = sent + (IF rpc = "sending" THEN 1 ELSE 0)
    /\ sent = Len(responses)
    /\ sent <= retry_count + 1
    /\ rpc = "raised" => (err = "RuntimeError" /\ sent = retry_count + 1)
    /\ (sent = retry_count + 1 /\ rpc # "backoff") => rpc = "raised"
    /\ rpc # "returned"

\* A session with the default retry_count has raised RuntimeError after six
\* requests.
C15_Witness ==
  /\ rate_limit # NoRate /\ retry_count = 5
  /\ rpc = "raised" /\ err = "RuntimeError"
  /\ sent = 6 /\ acquired = 6 /\ AllServiceLimits

\* ---------------------------------------------------------------- C16
\* C16: on a session without rate_limit, once a response is a 429, 503 or 504
\* the call has failed (NotImplementedError) with exactly one request sent, no
\* backoff sleep and no retry, whatever retry_count is.
C16_NoRateFailsAtOnce ==
  (/\ rate_limit = NoRate /\ responses # <<>>
   /\ LastResponse \in SERVICE_LIMIT_REACHED_STATUS_CODES) =>
    /\ rpc = "raised" /\ err = "NotImplementedError"
    /\ sent = 1 /\ slept = 0 /\ retry_num = 0 /\ acquired = 0

\* A session without rate_limit and with retries configured has failed on a
\* service limit.
C16_Witness ==
  /\ rate_limit = NoRate /\ retry_count = 5
  /\ rpc = "raised" /\ err = "NotImplementedError" /\ LastResponse = 503

\* ---------------------------------------------------------------- C17
\* C17: a response that is not a 429, 503 or 504 ends the call at once: it is
\* the last response, every response before it was a service limit, it is
\* what the call returns and no request is sent after it; a call that returns
\* returns such a response, and a call that does not return has raised.
C17_ReturnsFirstOtherResponse ==
  /\ \A k \in 1..Len(responses) :
       responses[k] \notin SERVICE_LIMIT_REACHED_STATUS_CODES =>
         /\ k = Len(responses)
         /\ rpc = "returned"
         /\ sent = k
  /\ rpc = "returned" =>
       /\ responses # <<>>
       /\ LastResponse \notin SERVICE_LIMIT_REACHED_STATUS_CODES
  /\ rpc = "raised" => err # "none"
  /\ err # "none" => rpc = "raised"

\* A call has returned a 200 that came after two service limits.
C17_Witness ==
  /\ rpc = "returned" /\ Len(responses) = 3 /\ LastResponse = 200
  /\ responses[1] = 429 /\ responses[2] = 504

\* ---------------------------------------------------------------- C14
\* C14: a rate-limited session on which no request was ever made closes
\* without raising, also when close() runs before the filler task's first
\* step.
C14_EmptySessionCloses ==
  (rate_limit # NoRate /\ issued = 0) => spc # "raised"

\* ---------------------------------------------------------------- C18
\* C18: on a rate-limited session, the requests passed to the underlying
\* client within any one second (the second ending now) number at most
\* rate_limit, and at most one when rate_limit is below one per second.
PerSecond(rate) == IF rate < RateDen THEN 1 ELSE rate \div RateDen
C18_RateCeiling ==
  rate_limit # NoRate => Len(recent) <= PerSecond(rate_limit)

\* ---------------------------------------------------------------- C19
\* C19: with rate_limit 2 per second and six requests made at the moment the
\* session is created (and none later), the sixth is dispatched no earlier
\* than 2.5 s and no later than 4.0 s after creation while the session is
\* open; the k-th of the requests made at creation is never dispatched before
\* (k - 1) / rate_limit; without rate_limit every request is dispatched the
\* moment it is made.
SixAtOnce == burst = 6 /\ issued = 6
C19_ThrottleTiming ==
  /\ (rate_limit = 20 /\ SixAtOnce /\ dispatched = 6) =>
       (5 * OneSecond <= 2 * lastDispatch /\ lastDispatch <= 4 * OneSecond)
  /\ (rate_limit = 20 /\ SixAtOnce /\ spc = "open" /\ now > 4 * OneSecond) =>
       dispatched = 6
  /\ (rate_limit # NoRate /\ burst = issued /\ dispatched > 0) =>
       lastDispatch * rate_limit >= (dispatched - 1) * RateDen * OneSecond
  /\ rate_limit = NoRate =>
       (dispatched = issued /\ (SixAtOnce => lastDispatch = 0))

\* ---------------------------------------------------------------- C20
\* C20: while the session is open and the queue never lacked space, the
\* tokens the filler has added by time t fall short of floor(t * rate_limit)
\* by no more than a constant, the tokens that fall due between two wake-ups
\* plus one, however long the session has run and however late (up to
\* MaxJitter) each wake-up was.
Due == (now * rate_limit) \div (RateDen * OneSecond)
C20_NoDrift ==
  (rate_limit # NoRate /\ spc = "open" /\ session.filler = "sleeping" /\ ~clamped) =>
    Due - produced <=
      1 + TokensFor(SleepTicks(rate_limit) + MaxJitter, rate_limit)

\* ---------------------------------------------------------------- C21
\* C21: a session constructed with a rate_limit of zero, below zero, or so
\* low that rate_limit * TIME_BASE is below 1 does not come to exist: the
\* constructor raised, there is no filler task, no token and no request.
C21_LowRateRefused ==
  (rate_limit # NoRate /\ rate_limit * TIME_BASE < RateDen) =>
    /\ spc = "unbuilt"
    /\ session.filler = "none"
    /\ produced = 0 /\ qsize = 0 /\ issued = 0

\* The constructor refused 0.1 requests per second.
C21_Witness == rate_limit = 1 /\ spc = "unbuilt" /\ session.filler = "none"

\* ----------------------------------------------- reading a batch
\* The number of the chunk of the paper at position k, from 0.
ChunkNo(k) == (k - 1) \div batch_size
\* The papers whose scrape_parse coroutine was created.
Attempted == {k \in DOMAIN jobs : jobs[k].st # "new"}
\* The papers scrape() was called for.
ScrapeCalled == {k \in DOMAIN jobs : jobs[k].st = "scrape" \/ jobs[k].scraped > 0}

\* ---------------------------------------------------------------- C22
\* C22: the papers are processed chunk after chunk: never more than
\* batch_size coroutines (so never more than batch_size scrape() calls) are
\* in flight, and no coroutine of a chunk exists while one of an earlier
\* chunk has not returned.
C22_ChunksInTurn ==
  /\ Cardinality({k \in DOMAIN jobs : jobs[k].st \in Running}) <= batch_size
  /\ \A k, m \in DOMAIN jobs :
       (ChunkNo(k) < ChunkNo(m) /\ jobs[m].st # "new") =>
         jobs[k].st \in {"ok", "false"}

\* Both papers of the second chunk of two are in scrape().
C22_Witness ==
  /\ batch_size = 2 /\ Len(papers) >= 4
  /\ jobs[3].st = "scrape" /\ jobs[4].st = "scrape"

\* ---------------------------------------------------------------- C23
\* C23: with a limit, a chunk after the first is started only when the
\* aggregate held fewer than limit results at the end of the chunk before
\* it; no more than batch_size papers per started chunk are attempted; and
\* batch_scrape returns only when every coroutine it started has returned,
\* none being cancelled.
C23_StopsOnLimit ==
  /\ \A c \in 2..Len(startedWith) :
       limit # NoLimit => startedWith[c] < limit
  /\ Cardinality(Attempted) <= batch_size * Len(startedWith)
  /\ bpc = "returned" =>
       \A k \in DOMAIN jobs : jobs[k].st \in {"new", "ok", "false"}

\* Five papers in chunks of two with a limit of three: the limit was reached
\* after the second chunk, four papers were attempted and the third chunk
\* was never started.
C23_Witness ==
  /\ Len(papers) = 5 /\ batch_size = 2 /\ limit = 3
  /\ bpc = "returned"
  /\ Len(startedWith) = 2
  /\ Cardinality(DOMAIN aggregated) >= 3
  /\ Cardinality(Attempted) = 4
  /\ jobs[5].st = "new"

\* ---------------------------------------------------------------- C24
\* C24: a paper whose preprocessing failed, with whatever exception, is
\* skipped: its coroutine returned False without calling scrape(), and
\* batch_scrape has not raised on its account.
C24_PreprocessFailureSkipped ==
  \A k \in DOMAIN jobs :
    jobs[k].pre \in {"RuntimeError", "other"} =>
      /\ jobs[k].st = "false"
      /\ jobs[k].scraped = 0
      /\ (bpc = "raised" => \E m \in DOMAIN jobs \ {k} : jobs[m].st = "raised")

C26_GlobalOffsets ==
  /\ \A k \in ScrapeCalled : jobs[k].i = k - 1
  /\ \A k, m \in ScrapeCalled : k # m => jobs[k].i # jobs[m].i

\* The first paper of the second chunk of two was scraped with i = 2.
C26_Witness ==
  /\ batch_size = 2 /\ Len(papers) >= 3
  /\ jobs[3].scraped = 1 /\ jobs[3].i = 2
  /\ jobs[1].scraped = 1 /\ jobs[1].i = 0

\* ---------------------------------------------------------------- C30
\* C30: a step of deregister_scraper(name) ends with no strategy of that name
\* registered, with every other strategy where it was, in the same order and
\* with the same priority, and with the buckets rebuilt from that list; when
\* no strategy has the name, list and buckets are as they were.
C30_Deregister ==
  [][\A n \in Names :
       DeregisterScraper(n) =>
         /\ scrapers' = SelectSeq(scrapers, LAMBDA s : s.name # n)
         /\ sorted_scrapers' = BuildSortedScrapers(scrapers')
         /\ (\A k \in 1..Len(scrapers) : scrapers[k].name # n) =>
              /\ scrapers' = scrapers
              /\ sorted_scrapers' = sorted_scrapers]_vars

\* ------------------------------------------- reading a strategy call
\* The record carries the identifier the strategy resolves: an arXiv id (as
\* "ArXiv" or in an arXiv DOI), a bioRxiv/medRxiv DOI, a ChemRxiv DOI, a
\* PubMed Central id, a PubMed id, an open-access url. local_scraper
\* resolves none and needs none.
Identifier(name, rec) ==
  \/ name = "arxiv" /\ ("ArXiv" \in rec.ids \/ rec.doi = "arxiv")
  \/ name \in {"medrxiv", "biorxiv"} /\ rec.doi = "xiv"
  \/ name = "chemrxiv" /\ rec.doi = "chemrxiv"
  \/ name = "pmc" /\ "PubMedCentral" \in rec.ids
  \/ name = "pubmed" /\ "PubMed" \in rec.ids
  \/ name = "openaccess" /\ rec.openAccessPdf = "url"
  \/ name = "local"

\* A fetch that ended with a non-2xx status, without the link looked for, or
\* with content that is not a PDF where the PDF was asked for.
FetchFailed(f) ==
  \/ ~f.r.ok
  \/ f.stage \in {"find_pmc_pdf_link", "pubmed_to_pdf"} /\ f.r.content # "link"
  \/ f.stage = "link_to_pdf" /\ f.r.content \notin {"pdf", "link"}
  \/ /\ f.stage \in {"arxiv_to_pdf", "xiv_to_pdf", "pdf_link", "pmc_to_pdf"}
     /\ f.r.content # "pdf"

DefaultNames == {"arxiv", "medrxiv", "biorxiv", "chemrxiv", "pmc", "pubmed",
                 "openaccess", "local"}

C28_TrueMeansWritten ==
  /\ (strategy \notin {"none", "local"} /\ outcome = "true") => written
  /\ (\E k \in 1..Len(fetched) : FetchFailed(fetched[k])) =>
       (outcome # "true" /\ ~written)

\* ---------------------------------------------------------------- C29
\* C29: every Scraper that default_scraper returned holds the eight default
\* strategies, once each: eight entries, eight names, an outcome map of
\* eight entries; a later call has added nothing to it.
C29_DefaultsOnce ==
  \A g \in 1..Len(registries) :
    LET scr == registries[g]
    IN  /\ Len(scr) = 8
        /\ {scr[k].name : k \in 1..Len(scr)} = DefaultNames
        /\ \A k, m \in 1..Len(scr) : scr[k].name = scr[m].name => k = m
        /\ Cardinality(DOMAIN InitialResult(scr)) = Len(scr)
        /\ SumLen(BuildSortedScrapers(scr)) = Len(scr)

\* default_scraper was called twice.
C29_Witness ==
  /\ Len(registries) = 2
  /\ Len(registries[1]) = 8 /\ Len(registries[2]) = 8

\* ---------------------------------------------------------------- C31
\* C31: on a rate-limited session every attempt, first or retry, took one
\* token out of the queue before it went to the underlying client: the
\* attempts sent and the tokens still queued are together the tokens the
\* filler has produced, so never more were sent than produced, and every
\* attempt made is either sent or still waiting for its token. Without a
\* rate limit every request is sent with no token in existence.
C31_OneTokenPerAttempt ==
  /\ (rate_limit # NoRate /\ spc # "unbuilt") =>
       /\ dispatched + qsize = produced
       /\ dispatched <= produced
       /\ dispatched + waiting = issued + retried
  /\ rate_limit = NoRate =>
       (dispatched = issued /\ produced = 0 /\ qsize = 0 /\ waiting = 0)

\* A retry has been sent, with its token, after the first attempt of its call.
C31_Witness ==
  /\ rate_limit # NoRate
  /\ retried = 1 /\ waiting = 0 /\ issued = 1
  /\ dispatched = 2 /\ produced >= 2

\* ---------------------------------------------------------------- C32
\* C32: a fill adds the lesser of the tokens due for the time since the last
\* fill (rounded down) and the free space of the queue, and after every step
\* the queue of a session holds between 0 and int(rate_limit * TIME_BASE)
\* tokens.
C32_QueueWithinCapacity ==
  [][(rate_limit # NoRate /\ spc # "unbuilt") =>
       /\ qsize' >= 0
       /\ qsize' <= QueueSize(rate_limit)
       /\ FillerWake =>
            qsize' - qsize =
              Min(TokensFor(now - ts_before_sleep, rate_limit),
                  QueueSize(rate_limit) - qsize)]_vars

\* The queue is full and a fill found less space than tokens due.
C32_Witness ==
  /\ rate_limit # NoRate /\ spc = "open"
  /\ clamped
  /\ qsize = QueueSize(rate_limit)

\* ---------------------------------------------------------------- C35
\* C35: the tokens the filler has produced by time t are at most
\* rate_limit * t, whenever it woke and whatever was taken from the queue; so
\* are the requests sent by time t.
C35_ProducedWithinRate ==
  (rate_limit # NoRate /\ spc # "unbuilt") =>
    /\ produced * RateDen * OneSecond <= rate_limit * now
    /\ dispatched * RateDen * OneSecond <= rate_limit * now

\* At 2 per second, after 2 seconds, four tokens were produced and sent.
C35_Witness ==
  /\ rate_limit = 20 /\ now = 2 * OneSecond
  /\ produced = 4 /\ dispatched = 4

\* ---------------------------------------------------------------- C33
\* C33: close() closes the underlying HTTP session only when the filler task
\* is over, and once close() has returned the filler task is over and no
\* token is added to the queue any more.
C33_FillerOverBeforeClosed ==
  [][/\ session'.closed => ~FillerRunning(session'.filler)
     /\ spc = "closed" =>
          /\ ~FillerRunning(session.filler)
          /\ produced' = produced
          /\ qsize' <= qsize
          /\ spc' = "closed"]_vars

\* close() has returned on a session whose filler had produced tokens, the
\* time of the filler's next fill has passed and the queue has room.
C33_Witness ==
  /\ spc = "closed" /\ session.closed
  /\ session.filler = "done"
  /\ produced > 0
  /\ now > wake
  /\ qsize < QueueSize(rate_limit)

\* ---------------------------------------------------------------- C37
\* C37: no request is left stuck by close(): there is no state in which
\* close() has returned, the filler task is over, the queue is empty and a
\* request is still waiting for a token (nothing can complete it any more).
C37_NoneStuckAfterClose ==
  ~(/\ spc = "closed"
    /\ ~FillerRunning(session.filler)
    /\ qsize = 0
    /\ waiting > 0)

\* ---------------------------------------------------------------- C36
\* C36: with the filler scheduled fairly, the requests waiting for a token on
\* an open session with a rate_limit are all sent in the end, however many
\* they are and whatever was sent before: w requests waiting after d were
\* sent lead to d + w sent, unless the session is closed first.
C36_WaitersServed ==
  \A d \in 0..MaxRequests : \A w \in 1..MaxRequests :
    (rate_limit # NoRate /\ spc = "open" /\ dispatched = d /\ waiting = w)
      ~> (dispatched >= d + w \/ spc # "open")

\* MaxRequests requests arrived on an open session and all were sent.
C36_Witness ==
  /\ rate_limit # NoRate /\ spc = "open"
  /\ issued = MaxRequests
  /\ dispatched = MaxRequests
  /\ waiting = 0

\* ---------------------------------------------------------------- C38
\* C38: within one call of scrape() an entry of the outcome map changes only
\* from "none" (not attempted) to "failed" or "success" and never again, and
\* once an entry is "success" no strategy is invoked any more.
C38_OutcomesMonotonic ==
  [][(InCall /\ pc' # "idle") =>
       /\ DOMAIN result' = DOMAIN result
       /\ \A n \in DOMAIN result :
            /\ result[n] # "none" => result'[n] = result[n]
            /\ result'[n] \in {"none", "failed", "success"}
       /\ (\E n \in DOMAIN result : result[n] = "success") =>
            invoked' = invoked]_vars

\* ---------------------------------------------------------------- C39
\* C39: no two scrape() calls running at the same time were given the same
\* path, and the map batch_scrape returns has as many entries as there are
\* papers whose scrape and parse both succeeded.
C39_PathsApart ==
  /\ \A k \in 1..Len(papers) : \A m \in 1..Len(papers) :
       (k # m /\ jobs[k].st = "scrape" /\ jobs[m].st = "scrape") =>
         papers[k] # papers[m]
  /\ bpc = "returned" =>
       Cardinality(DOMAIN aggregated) =
         Cardinality({k \in 1..Len(papers) : jobs[k].st = "ok"})

\* ---------------------------------------------------------------- C34
\* C34: within one scrape() call at most one strategy is in flight at any
\* time, and none while the call is between strategies or over; several are
\* in flight only in different scrape() calls of the chunk.
C34_OneInFlight ==
  \A c \in DOMAIN flights :
    /\ Cardinality(flights[c].running) <= 1
    /\ flights[c].st \in {"loop", "done"} => flights[c].running = {}
    /\ flights[c].st \in {"awaiting", "cancelling"} =>
         flights[c].running = {flights[c].pos}

\* Two calls of the chunk each have a strategy in flight; the first has
\* timed out its first strategy and awaits its second.
C34_Witness ==
  /\ Len(flights) = 2
  /\ flights[1].st = "awaiting" /\ flights[1].pos = 2
  /\ flights[1].cancelled = 1
  /\ flights[2].st = "awaiting"

\* ---------------------------------------------------------------- C40
\* C40: the pages of a_gsearch_papers are contiguous: each request starts
\* where the page before it ended, _limit after the start of that page, so
\* no position is skipped or requested twice.
C40_PagesContiguous ==
  \A k \in 2..Len(starts) : starts[k] = starts[k - 1] + page_size

====
